---------------------------- MODULE Spec2Model ----------------------------
(***************************************************************************)
(* A model of the fork-choice core of eth2-fork-mon: rollProtoArray and    *)
(* buildTree, compactSingleChildren, pruneForBrowser,                      *)
(* Monitor.buildLatestForkChoiceSummary, and the goroutines of             *)
(* Monitor.Serve: the head monitor, its head fetches and an HTTP handler.  *)
(*                                                                         *)
(* Strings that the code parses (slots) are sequences of one-character     *)
(* strings, so that strconv.Atoi is modelled by what it does.  A Go slice  *)
(* is a reference to a backing array: where the code writes through a      *)
(* slice that it shares with its caller (compactSingleChildren) the model  *)
(* keeps the backing arrays in a heap.                                     *)
(***************************************************************************)
EXTENDS Integers, Sequences, FiniteSets, TLC

VARIABLES
    \* rollProtoArray
    protoArrayData,        \* the flat array handed to rollProtoArray
    canonicalHeadIndex,    \* its second argument
    blockTree,             \* the ForkChoiceNode it returned
    rollPc,                \* "call" | "returned" | "panic"
    \* compactSingleChildren
    heap,                  \* the backing arrays of the Children slices
    input,                 \* the caller's ForkChoiceNode, passed by value
    origTree,              \* the tree the caller held before the first call
    result,                \* the ForkChoiceNode returned by the latest call
    firstResult,           \* the tree returned by the first call
    compactPc,             \* "call" | "once" | "twice"
    \* pruneForBrowser
    pruneInput,            \* the tree handed to pruneForBrowser
    clock,                 \* time.Now().Unix() at the call
    eth2,                  \* config.Eth2
    targetSlot,            \* the local targetSlot
    pruneNode,             \* the local node: the node the walk is at
    pruneSlot,             \* the local slot: Atoi of node.Slot
    prunePc,               \* "call" | "loop" | "returned"
    spins,                 \* passes of the outer loop that changed nothing
    \* Monitor
    forkChoiceSummary,     \* Monitor.forkChoiceSummary
    forkChoiceTotalWeight, \* Monitor.forkChoiceTotalWeight
    fetched,               \* what the latest fetchProtoArray returned
    buildPc,               \* how the latest build ended
    \* the goroutines of Monitor.Serve
    provider,              \* Monitor.currentForkChoiceProvider, 0 for nil
    latestHead,            \* Node.latestHead of each node, 0 for HeadRef{}
    isHealthy,             \* Node.isHealthy of each node
    forkchoiceLock,        \* who holds Monitor.forkchoiceLock
    monPc,                 \* where the goroutine of startHeadMonitor is
    nextNode,              \* the node the loop of fetchHeads is at
    wg,                    \* the counter of the WaitGroup of fetchHeads
    fetchPc,               \* the goroutine of fetchLatestHead of each node
    lastBlockTreeHead,     \* the local of fetchHeads
    servePc,               \* Serve: "waiting" on errc | "returned"
    panicked,              \* a goroutine panicked: the program is over
    reqPc,                 \* where the HTTP handler is
    reqSummary,            \* the handler's local forkChoiceSummary
    reqWeight,             \* the handler's local totalWeight
    resp,                  \* the response the handler wrote last
    reqAfterFailure,       \* history: the request began after a failed fetch
    reqPub,                \* history: what was published when it began
    lastPub,               \* history: the <<tree, weight>> published last
    failedAt,              \* history: what was published when a fetch failed
    cycleStarted,          \* history: fetchHeads was entered
    cycleHead,             \* history: the provider's head when it was entered
    \* the published tree as Go holds it
    arrays,                \* the backing arrays allocated so far
    published,             \* Monitor.forkChoiceSummary, its slice an address
    copied,                \* sendForkChoice's local forkChoiceSummary
    walk,                  \* pruneForBrowser's node, or visit's receiver
    snapPc,                \* where the handler is
    rebuilds,              \* the builds that have published
    snapshots,             \* history: each published struct and its tree
    \* humanizeRoot
    hRoot,                 \* the argument root
    humanized,             \* the string returned
    humanPc,               \* "call" before the call, "done" after it
    \* the head fetches of a poll cycle
    nodeVersion,           \* Node.version of each node
    nodeHead,              \* Node.latestHead of each node
    nodeHealthy,           \* Node.isHealthy of each node
    nodeFetchPc,           \* where each node's fetchLatestHead goroutine is
    nodeResp,              \* history: the answer to each node's last fetch
    pollPc,                \* where fetchHeads is
    nodePanicked,          \* a type assertion failed and the program ended
    \* fetchHeads starting each build in a goroutine
    bgHead,                \* the provider's latestHead, as a count of changes
    bgLastBlockTreeHead,   \* fetchHeads's local lastBlockTreeHead
    bgPollPc,              \* where fetchHeads is
    bgSpawned,             \* the build goroutines started so far
    bgBuilds,              \* each build goroutine: where it is, what it fetched
    bgLock,                \* forkchoiceLock: 0 or the goroutine holding it
    bgSummary,             \* what m.forkChoiceSummary points to
    bgPanicked,            \* protoArray[0] of an empty array ended the program
    \* the participation cache
    participation,         \* Monitor.participation
    partCalls              \* the calls of fetchLatestParticipation so far

rollVars == <<protoArrayData, canonicalHeadIndex, blockTree, rollPc>>

compactVars == <<heap, input, origTree, result, firstResult, compactPc>>

pruneVars ==
    <<pruneInput, clock, eth2, targetSlot, pruneNode, pruneSlot, prunePc, spins>>

monitorVars ==
    <<forkChoiceSummary, forkChoiceTotalWeight, fetched, buildPc>>

serveVars ==
    <<provider, latestHead, isHealthy, forkchoiceLock, monPc, nextNode, wg,
      fetchPc, lastBlockTreeHead, servePc, panicked, reqPc, reqSummary,
      reqWeight, resp, reqAfterFailure, reqPub, lastPub, failedAt,
      cycleStarted, cycleHead>>

snapVars == <<arrays, published, copied, walk, snapPc, rebuilds, snapshots>>

humanVars == <<hRoot, humanized, humanPc>>

\* The variables of the functions and versions studied on their own.
headsVars ==
    <<nodeVersion, nodeHead, nodeHealthy, nodeFetchPc, nodeResp, pollPc,
      nodePanicked>>

bgVars ==
    <<bgHead, bgLastBlockTreeHead, bgPollPc, bgSpawned, bgBuilds, bgLock,
      bgSummary, bgPanicked>>

partVars == <<participation, partCalls>>

helperVars == <<humanVars, headsVars, bgVars, partVars>>

vars ==
    <<rollVars, compactVars, pruneVars, monitorVars, serveVars, snapVars,
      helperVars>>

(***************************************************************************)
(* Bounds of the model.                                                    *)
(***************************************************************************)
MaxNodes == 4

MaxTreeNodes == 6

MaxPruneNodes == 3

MaxClock == 15

MaxSpins == 2

MaxFetchedNodes == 3

NumNodes == 2

MaxHeads == 2

MaxServedNodes == 2

MaxRebuilds == 3
MaxSnapNodes == 3

MaxRootLen == 67

MaxStride == 2

MaxHeadSlot == 10

MaxTriggers == 3

MaxEpoch == 3

MaxPartCalls == 4

(***************************************************************************)
(* Constants of the program.                                               *)
(***************************************************************************)
epochsToSend == 4

\* The length of a root as the nodes print it: "0x" and 64 hex digits.
HexRootLen == 66

participationEntriesCount == 4

(***************************************************************************)
(* Strings and strconv.                                                    *)
(***************************************************************************)
Digits == <<"0", "1", "2", "3", "4", "5", "6", "7", "8", "9">>

IsDigit(c) == \E d \in 1..10 : Digits[d] = c

DigitVal(c) == (CHOOSE d \in 1..10 : Digits[d] = c) - 1

RECURSIVE DigitsVal(_)
DigitsVal(s) ==
    IF Len(s) = 0 THEN 0
    ELSE 10 * DigitsVal(SubSeq(s, 1, Len(s) - 1)) + DigitVal(s[Len(s)])

\* A conversion that gives 0 and no error for what is not a number.
AtoiLenient(s) ==
    LET signed == Len(s) > 0 /\ s[1] \in {"+", "-"}
        body   == IF signed THEN Tail(s) ELSE s
    IN  IF Len(body) = 0 \/ \E k \in 1..Len(body) : ~IsDigit(body[k])
        THEN [err |-> FALSE, val |-> 0]
        ELSE [err |-> FALSE,
              val |-> IF signed /\ s[1] = "-" THEN 0 - DigitsVal(body)
                      ELSE DigitsVal(body)]

\* strconv.Atoi: an optional sign, then one or more decimal digits.
Atoi(s) ==
    LET signed == Len(s) > 0 /\ s[1] \in {"+", "-"}
        body   == IF signed THEN Tail(s) ELSE s
    IN  IF Len(body) = 0 \/ \E k \in 1..Len(body) : ~IsDigit(body[k])
        THEN [err |-> TRUE, val |-> 0]
        ELSE [err |-> FALSE,
              val |-> IF signed /\ s[1] = "-" THEN 0 - DigitsVal(body)
                      ELSE DigitsVal(body)]

RECURSIVE Itoa(_)
Itoa(n) ==
    IF n < 10 THEN <<Digits[n + 1]>>
    ELSE Append(Itoa(n \div 10), Digits[(n % 10) + 1])

(***************************************************************************)
(* ForkChoiceNode and ProtoArrayNode.                                      *)
(***************************************************************************)
\* A ForkChoiceNode whose Children is the sequence of its child nodes.
ForkChoiceNode(slot, root, weight, isCanonical) ==
    [Children             |-> <<>>,
     Slot                 |-> slot,
     Root                 |-> root,
     Weight               |-> weight,
     IsCanonical          |-> isCanonical,
     CountCollapsedBlocks |-> 0]

\* A node with a slot and a root in the place of the zero value.
PlaceholderNode == ForkChoiceNode(<<"0">>, "genesis", 0, FALSE)

\* The zero value of the struct: Monitor.forkChoiceSummary before any build.
EmptyNode == ForkChoiceNode(<<>>, "", 0, FALSE)

\* ParentIndex is a *float64: <<>> is nil, <<k>> points to k.
ProtoArrayNode(slot, root, parent, weight, best) ==
    [Slot           |-> slot,
     Root           |-> root,
     ParentIndex    |-> parent,
     Weight         |-> weight,
     BestDescendant |-> best]

RECURSIVE TreeSize(_)
TreeSize(t) ==
    LET RECURSIVE Sum(_)
        Sum(k) == IF k = 0 THEN 0 ELSE TreeSize(t.Children[k]) + Sum(k - 1)
    IN  1 + Sum(Len(t.Children))

RECURSIVE SumChildren(_)
SumChildren(t) ==
    LET RECURSIVE Sum(_)
        Sum(k) == IF k = 0 THEN 0 ELSE SumChildren(t.Children[k]) + Sum(k - 1)
    IN  Len(t.Children) + Sum(Len(t.Children))

\* All nodes of a tree, each with its own subtree.
RECURSIVE NodesOf(_)
NodesOf(t) ==
    {t} \cup UNION {NodesOf(t.Children[k]) : k \in 1..Len(t.Children)}

\* The elements of a set of numbers in increasing order.
RECURSIVE Ascending(_)
Ascending(S) ==
    IF S = {} THEN <<>>
    ELSE LET m == CHOOSE x \in S : \A y \in S : x <= y
         IN  <<m>> \o Ascending(S \ {m})

(***************************************************************************)
(* rollProtoArray and buildTree.                                           *)
(***************************************************************************)
\* A childrenIndex that keeps, for each parent, only the child recorded last.
ChildrenIndexLastOnly(data) ==
    LET hasParent(j) == data[j].ParentIndex # <<>>
        parentRoot(j) == data[data[j].ParentIndex[1] + 1].Root
        withParent == {i \in 1..Len(data) : hasParent(i)}
        lastOf(r) == CHOOSE j \in withParent :
                        /\ parentRoot(j) = r
                        /\ \A k \in withParent : parentRoot(k) = r => k <= j
    IN  [r \in {parentRoot(j) : j \in withParent} |-> <<data[lastOf(r)].Root>>]

\* A childrenIndex that puts each new child before the children recorded.
ChildrenIndexPrepending(data) ==
    LET hasParent(j) == data[j].ParentIndex # <<>>
        parentRoot(j) == data[data[j].ParentIndex[1] + 1].Root
        keys == {parentRoot(j) : j \in {i \in 1..Len(data) : hasParent(i)}}
        RECURSIVE upTo(_, _)
        upTo(r, j) ==
            IF j = 0 THEN <<>>
            ELSE IF hasParent(j) /\ parentRoot(j) = r
                 THEN <<data[j].Root>> \o upTo(r, j - 1)
                 ELSE upTo(r, j - 1)
    IN  [r \in keys |-> upTo(r, Len(data))]

\* childrenIndex after the loop of rollProtoArray: for each parent root, the
\* roots of the entries that name it as parent, appended in array order.
ChildrenIndex(data) ==
    LET hasParent(j) == data[j].ParentIndex # <<>>
        parentRoot(j) == data[data[j].ParentIndex[1] + 1].Root
        keys == {parentRoot(j) : j \in {i \in 1..Len(data) : hasParent(i)}}
        RECURSIVE upTo(_, _)
        upTo(r, j) ==
            IF j = 0 THEN <<>>
            ELSE IF hasParent(j) /\ parentRoot(j) = r
                 THEN Append(upTo(r, j - 1), data[j].Root)
                 ELSE upTo(r, j - 1)
    IN  [r \in keys |-> upTo(r, Len(data))]

\* nodes after the loop: a later entry with the same root replaces an earlier.
NodesMap(data, head) ==
    LET last(r) == CHOOSE j \in 1..Len(data) :
                      /\ data[j].Root = r
                      /\ \A k \in (j + 1)..Len(data) : data[k].Root # r
    IN  [r \in {data[j].Root : j \in 1..Len(data)} |->
            ForkChoiceNode(data[last(r)].Slot, r, data[last(r)].Weight,
                           data[last(r)].BestDescendant = head)]

\* The single-child rule at the end of buildTree.
InferCanonical(node) ==
    IF /\ Len(node.Children) = 1
       /\ node.IsCanonical
       /\ ~node.Children[1].IsCanonical
    THEN [node EXCEPT !.Children[1].IsCanonical = TRUE]
    ELSE node

RECURSIVE buildTree(_, _, _)
buildTree(node, nodes, childrenIndex) ==
    LET children == IF node.Root \in DOMAIN childrenIndex
                    THEN childrenIndex[node.Root] ELSE <<>>
        built == [k \in 1..Len(children) |->
                     buildTree(nodes[children[k]], nodes, childrenIndex)]
    IN  InferCanonical([node EXCEPT !.Children = node.Children \o built])

\* Taking the last entry of the array as the root of the tree.
RootEntryLast(data) == data[Len(data)]

\* The entry rollProtoArray takes as the root of the tree.
RootEntry(data) == data[1]

\* rollProtoArray: indexing element 0 of an empty array panics.
rollProtoArray(data, head) ==
    IF Len(data) = 0
    THEN [panic |-> TRUE, tree |-> EmptyNode]
    ELSE [panic |-> FALSE,
          tree  |-> buildTree(NodesMap(data, head)[RootEntry(data).Root],
                              NodesMap(data, head), ChildrenIndex(data))]

\* A tree of values with every chain of only children collapsed onto its
\* first node, and the nodes skipped counted there.
RECURSIVE CompactedTree(_)
CompactedTree(t) ==
    LET RECURSIVE End(_)
        End(c) == IF Len(c.Children) = 1
                  THEN LET r == End(c.Children[1])
                       IN  [node |-> r.node, skipped |-> r.skipped + 1]
                  ELSE [node |-> c, skipped |-> 0]
        e  == End(t.Children[1])
        t1 == IF Len(t.Children) = 1
              THEN [t EXCEPT !.Children = <<e.node>>,
                             !.CountCollapsedBlocks = @ + e.skipped]
              ELSE t
    IN  [t1 EXCEPT !.Children =
            [k \in 1..Len(t1.Children) |-> CompactedTree(t1.Children[k])]]

\* A summary that is the compacted tree.
computeSummaryCompacting(data, head) ==
    [panic |-> rollProtoArray(data, head).panic,
     tree  |-> CompactedTree(rollProtoArray(data, head).tree)]

\* computeSummary: the call of compactSingleChildren is commented out.
computeSummary(data, head) == rollProtoArray(data, head)

(***************************************************************************)
(* Inputs of rollProtoArray.                                               *)
(***************************************************************************)
RootNames == <<"h0", "h1", "h2", "h3", "h4", "h5", "h6", "h7">>

\* parent vectors over 1..n, 0 for "no parent", in which following the
\* parents from any entry ends at a parentless entry.
RECURSIVE Climbs(_, _, _)
Climbs(p, i, fuel) ==
    IF p[i] = 0 THEN TRUE
    ELSE IF fuel = 0 THEN FALSE
    ELSE Climbs(p, p[i], fuel - 1)

ParentVectors(n) ==
    {p \in [1..n -> 0..n] : \A i \in 1..n : Climbs(p, i, n)}

ProtoArrayOf(n, p, marked, head) ==
    [i \in 1..n |->
        ProtoArrayNode(Itoa(i - 1), RootNames[i],
                       IF p[i] = 0 THEN <<>> ELSE <<p[i] - 1>>,
                       n + 1 - i,
                       IF i \in marked THEN head ELSE head + 1)]

\* The same array with the slots running down as the index runs up.
SlotsDescending(data) ==
    [i \in 1..Len(data) |-> [data[i] EXCEPT !.Slot = Itoa(Len(data) - i)]]

IdleCompact ==
    /\ heap = <<>>
    /\ input = EmptyNode
    /\ origTree = EmptyNode
    /\ result = EmptyNode
    /\ firstResult = EmptyNode
    /\ compactPc = "idle"

IdlePrune ==
    /\ pruneInput = EmptyNode
    /\ clock = 0
    /\ eth2 = [GenesisTime |-> 0, SecondsPerSlot |-> 1, SlotsPerEpoch |-> 1]
    /\ targetSlot = 0
    /\ pruneNode = EmptyNode
    /\ pruneSlot = 0
    /\ prunePc = "idle"
    /\ spins = 0

IdleMonitor ==
    /\ forkChoiceSummary = EmptyNode
    /\ forkChoiceTotalWeight = 0
    /\ fetched = [err |-> FALSE, nodes |-> <<>>]
    /\ buildPc = "idle"

IdleServe ==
    /\ provider = 0
    /\ latestHead = <<>>
    /\ isHealthy = <<>>
    /\ forkchoiceLock = "free"
    /\ monPc = "idle"
    /\ nextNode = 1
    /\ wg = 0
    /\ fetchPc = <<>>
    /\ lastBlockTreeHead = 0
    /\ servePc = "idle"
    /\ panicked = FALSE
    /\ reqPc = "idle"
    /\ reqSummary = EmptyNode
    /\ reqWeight = 0
    /\ resp = [Status |-> 0, BlockTree |-> EmptyNode, TotalWeight |-> 0]
    /\ reqAfterFailure = FALSE
    /\ reqPub = <<>>
    /\ lastPub = <<>>
    /\ failedAt = <<>>
    /\ cycleStarted = FALSE
    /\ cycleHead = 0

IdleSnap ==
    /\ arrays = <<>>
    /\ published = EmptyNode
    /\ copied = EmptyNode
    /\ walk = EmptyNode
    /\ snapPc = "off"
    /\ rebuilds = 0
    /\ snapshots = {}

IdleHuman ==
    /\ hRoot = <<>>
    /\ humanized = <<>>
    /\ humanPc = "off"

IdleHeads ==
    /\ nodeVersion = <<>>
    /\ nodeHead = <<>>
    /\ nodeHealthy = <<>>
    /\ nodeFetchPc = <<>>
    /\ nodeResp = <<>>
    /\ pollPc = "off"
    /\ nodePanicked = FALSE

IdleBg ==
    /\ bgHead = 0
    /\ bgLastBlockTreeHead = 0
    /\ bgPollPc = "off"
    /\ bgSpawned = 0
    /\ bgBuilds = <<>>
    /\ bgLock = 0
    /\ bgSummary = <<>>
    /\ bgPanicked = FALSE

IdlePart ==
    /\ participation = <<>>
    /\ partCalls = 0

IdleHelper == IdleHuman /\ IdleHeads /\ IdleBg /\ IdlePart

InitRoll ==
    /\ IdleSnap
    /\ IdleHelper
    /\ IdleCompact
    /\ IdlePrune
    /\ IdleMonitor
    /\ IdleServe
    /\ \E n \in 0..MaxNodes :
       \E p \in ParentVectors(n) :
       \E marked \in SUBSET (1..n) :
       \E head \in 0..(IF n = 0 THEN 0 ELSE n - 1) :
       \E descending \in BOOLEAN :
          /\ protoArrayData =
                IF descending
                THEN SlotsDescending(ProtoArrayOf(n, p, marked, head))
                ELSE ProtoArrayOf(n, p, marked, head)
          /\ canonicalHeadIndex = head
    /\ blockTree = EmptyNode
    /\ rollPc = "call"

RollProtoArray ==
    /\ rollPc = "call"
    /\ LET r == rollProtoArray(protoArrayData, canonicalHeadIndex)
       IN  /\ rollPc' = IF r.panic THEN "panic" ELSE "returned"
           /\ blockTree' = r.tree
    /\ UNCHANGED <<protoArrayData, canonicalHeadIndex, compactVars, pruneVars,
                   monitorVars, serveVars, snapVars,
                   helperVars>>

NextRoll == RollProtoArray

SpecRoll == InitRoll /\ [][NextRoll]_vars

(***************************************************************************)
(* Properties of rollProtoArray.                                           *)
(***************************************************************************)
Parentless(data) == {i \in 1..Len(data) : data[i].ParentIndex = <<>>}

\* The entries on the parent chain of entry i, entry i included.
RECURSIVE ChainUp(_, _, _)
ChainUp(data, i, fuel) ==
    IF data[i].ParentIndex = <<>> \/ fuel = 0 THEN {i}
    ELSE {i} \cup ChainUp(data, data[i].ParentIndex[1] + 1, fuel - 1)

ProperAncestors(data, i) == ChainUp(data, i, Len(data)) \ {i}

ChildCount(data, i) ==
    Cardinality({j \in 1..Len(data) : data[j].ParentIndex = <<i - 1>>})

\* Entry 0 parentless, every entry below it, the head another entry than
\* entry 0, and best_descendant equal to the head index on exactly the
\* proper ancestors of the head entry.
WellFormedProtoArray(data, head) ==
    /\ Len(data) > 0
    /\ head + 1 \in 1..Len(data)
    /\ Parentless(data) = {1}
    /\ head + 1 # 1
    /\ \A i \in 1..Len(data) :
          (data[i].BestDescendant = head) <=> (i \in ProperAncestors(data, head + 1))

CanonicalRoots(t) == {n.Root : n \in {m \in NodesOf(t) : m.IsCanonical}}

NoCanonicalSiblings(t) ==
    \A n \in NodesOf(t) :
        Cardinality({k \in 1..Len(n.Children) : n.Children[k].IsCanonical}) <= 1

\* C1: for a well-formed proto-array, the canonical nodes of the tree are
\* exactly the nodes on the path from the root to the head entry, and no
\* two siblings are canonical, also when the head's parent is a fork.
CanonicalPathIsRootToHead ==
    (rollPc = "returned" /\ WellFormedProtoArray(protoArrayData, canonicalHeadIndex))
    => /\ CanonicalRoots(blockTree) =
            {protoArrayData[i].Root :
                i \in ChainUp(protoArrayData, canonicalHeadIndex + 1,
                              Len(protoArrayData))}
       /\ NoCanonicalSiblings(blockTree)

\* C2 as stated: one parentless entry, at whatever index, gives a tree of
\* N nodes whose children lists have N-1 elements in all.
TreeHasAllNodes ==
    (rollPc = "returned" /\ Cardinality(Parentless(protoArrayData)) = 1)
    => /\ TreeSize(blockTree) = Len(protoArrayData)
       /\ SumChildren(blockTree) = Len(protoArrayData) - 1

\* C2 amended: when the one parentless entry is entry 0, the tree has N
\* nodes and its children lists have N-1 elements in all.
TreeHasAllNodesFromEntryZero ==
    (rollPc = "returned" /\ Parentless(protoArrayData) = {1})
    => /\ TreeSize(blockTree) = Len(protoArrayData)
       /\ SumChildren(blockTree) = Len(protoArrayData) - 1

\* A fork and a parent stored after its child, under a root at entry 0.
TreeHasAllNodesWitness ==
    /\ rollPc = "returned"
    /\ Parentless(protoArrayData) = {1}
    /\ \E i \in 1..Len(protoArrayData) : ChildCount(protoArrayData, i) >= 2
    /\ \E i \in 1..Len(protoArrayData) :
          /\ protoArrayData[i].ParentIndex # <<>>
          /\ protoArrayData[i].ParentIndex[1] + 1 > i
    /\ TreeSize(blockTree) = Len(protoArrayData)

SameEntry(node, entry) ==
    /\ node.Root = entry.Root
    /\ node.Slot = entry.Slot
    /\ node.Weight = entry.Weight

\* C9 as stated: the root of the tree is the parentless entry, wherever
\* that entry sits in the array.
RootIsParentlessEntry ==
    (rollPc = "returned" /\ Cardinality(Parentless(protoArrayData)) = 1)
    => \A i \in Parentless(protoArrayData) :
          SameEntry(blockTree, protoArrayData[i])

\* C9 amended: the root of the tree is entry 0 of the array, and so it is
\* the parentless entry exactly when that entry is at index 0.
RootIsEntryZero ==
    rollPc = "returned"
    => /\ SameEntry(blockTree, protoArrayData[1])
       /\ Cardinality(Parentless(protoArrayData)) = 1
            => \A i \in Parentless(protoArrayData) :
                  SameEntry(blockTree, protoArrayData[i]) <=> (i = 1)

RootIsEntryZeroWitness ==
    /\ rollPc = "returned"
    /\ Len(protoArrayData) >= 3
    /\ Parentless(protoArrayData) = {1}
    /\ SameEntry(blockTree, protoArrayData[1])
    /\ Len(blockTree.Children) >= 1

\* The entry a node of the tree was built from (roots are distinct).
EntryOf(data, root) == CHOOSE i \in 1..Len(data) : data[i].Root = root

\* The entries that name entry i as their parent, in array order.
ChildEntries(data, i) ==
    Ascending({j \in 1..Len(data) : data[j].ParentIndex = <<i - 1>>})

\* C15: every node of the tree carries the slot, root and weight of its
\* entry, and its children are the entries that name that entry as parent,
\* in array order (a childless entry gives a node without children); when
\* no entry's best_descendant is the head index, no node is canonical.
ChildrenFollowArrayOrder ==
    rollPc = "returned"
    => /\ \A t \in NodesOf(blockTree) :
             LET i  == EntryOf(protoArrayData, t.Root)
                 ks == ChildEntries(protoArrayData, i)
             IN  /\ SameEntry(t, protoArrayData[i])
                 /\ Len(t.Children) = Len(ks)
                 /\ \A k \in 1..Len(ks) :
                       SameEntry(t.Children[k], protoArrayData[ks[k]])
       /\ (\A i \in 1..Len(protoArrayData) :
              protoArrayData[i].BestDescendant # canonicalHeadIndex)
             => CanonicalRoots(blockTree) = {}

\* A fork whose children stand in array order against their slots, next
\* to a leaf, under a root at entry 0.
ChildrenFollowArrayOrderWitness ==
    /\ rollPc = "returned"
    /\ Parentless(protoArrayData) = {1}
    /\ TreeSize(blockTree) = Len(protoArrayData)
    /\ \E t \in NodesOf(blockTree) :
          /\ Len(t.Children) >= 2
          /\ Atoi(t.Children[1].Slot).val > Atoi(t.Children[2].Slot).val
          /\ EntryOf(protoArrayData, t.Children[1].Root)
                < EntryOf(protoArrayData, t.Children[2].Root)
          /\ Len(t.Children[2].Children) = 0

(***************************************************************************)
(* compactSingleChildren.  A node here is a ForkChoiceNode whose Children  *)
(* is the address of a backing array in the heap, 0 for a nil slice: the   *)
(* function takes the node by value, and the copy shares the array.        *)
(***************************************************************************)
Kids(node, h) == IF node.Children = 0 THEN <<>> ELSE h[node.Children]

\* The tree a node stands for in a heap.
RECURSIVE Val(_, _)
Val(node, h) ==
    [node EXCEPT !.Children = [k \in 1..Len(Kids(node, h)) |->
                                  Val(Kids(node, h)[k], h)]]

\* The walk without the count.
RECURSIVE CollapseChainNoCount(_, _)
CollapseChainNoCount(child, h) ==
    IF Len(Kids(child, h)) = 1
    THEN [child   |-> CollapseChainNoCount(Kids(child, h)[1], h).child,
          skipped |-> 0]
    ELSE [child |-> child, skipped |-> 0]

\* The walk counting the node it stops at as well.
RECURSIVE CollapseChainCountsLast(_, _)
CollapseChainCountsLast(child, h) ==
    IF Len(Kids(child, h)) = 1
    THEN LET r == CollapseChainCountsLast(Kids(child, h)[1], h)
         IN  [child |-> r.child, skipped |-> r.skipped + 1]
    ELSE [child |-> child, skipped |-> 1]

\* The walk stopping after one step.
CollapseChainOneStep(child, h) ==
    IF Len(Kids(child, h)) = 1
    THEN [child |-> Kids(child, h)[1], skipped |-> 1]
    ELSE [child |-> child, skipped |-> 0]

\* The walk going on through the first child of a fork, down to a leaf.
RECURSIVE CollapseChainThroughForks(_, _)
CollapseChainThroughForks(child, h) ==
    IF Len(Kids(child, h)) >= 1
    THEN LET r == CollapseChainThroughForks(Kids(child, h)[1], h)
         IN  [child |-> r.child, skipped |-> r.skipped + 1]
    ELSE [child |-> child, skipped |-> 0]

\* The walk taking the first child of the fork it reaches.
RECURSIVE CollapseChainPastFork(_, _)
CollapseChainPastFork(child, h) ==
    IF Len(Kids(child, h)) = 1
    THEN LET r == CollapseChainPastFork(Kids(child, h)[1], h)
         IN  [child |-> r.child, skipped |-> r.skipped + 1]
    ELSE IF Len(Kids(child, h)) >= 2
    THEN [child |-> Kids(child, h)[1], skipped |-> 1]
    ELSE [child |-> child, skipped |-> 0]

\* The inner loop of compactSingleChildren: from the only child, walk down
\* while the node reached has exactly one child, counting the steps.
RECURSIVE CollapseChain(_, _)
CollapseChain(child, h) ==
    IF Len(Kids(child, h)) = 1
    THEN LET r == CollapseChain(Kids(child, h)[1], h)
         IN  [child |-> r.child, skipped |-> r.skipped + 1]
    ELSE [child |-> child, skipped |-> 0]

\* compactSingleChildren: the node returned and the heap it leaves.  Both
\* assignments to node.Children[i] write into the caller's backing array.
RECURSIVE compactSingleChildren(_, _)
compactSingleChildren(node, h) ==
    LET c      == CollapseChain(Kids(node, h)[1], h)
        single == Len(Kids(node, h)) = 1
        node1  == IF single
                  THEN [node EXCEPT !.CountCollapsedBlocks = @ + c.skipped]
                  ELSE node
        h1     == IF single THEN [h EXCEPT ![node.Children][1] = c.child]
                  ELSE h
        n      == Len(Kids(node1, h1))
        RECURSIVE loop(_, _)
        loop(i, hh) ==
            IF i > n THEN hh
            ELSE LET r == compactSingleChildren(hh[node1.Children][i], hh)
                 IN  loop(i + 1, [r.heap EXCEPT ![node1.Children][i] = r.node])
    IN  [node |-> node1, heap |-> loop(1, h1)]

(***************************************************************************)
(* Inputs of compactSingleChildren: the trees of up to MaxTreeNodes nodes, *)
(* node i's children stored in the array at address i, with all counts 0   *)
(* or with a count already on one node.                                    *)
(***************************************************************************)
\* Parent vectors of the trees whose nodes are numbered parents first.
TreeShapes(n) == {p \in [1..n -> 0..n] : \A i \in 1..n : p[i] < i /\ (p[i] = 0 <=> i = 1)}

KidsOf(n, p, i) == {j \in 1..n : p[j] = i}

HeapNode(n, p, i, slots, canon, collapsed) ==
    [Children             |-> IF KidsOf(n, p, i) = {} THEN 0 ELSE i,
     Slot                 |-> slots[i],
     Root                 |-> RootNames[i],
     Weight               |-> 0,
     IsCanonical          |-> canon[i],
     CountCollapsedBlocks |-> collapsed[i]]

HeapOf(n, p, slots, canon, collapsed) ==
    [a \in 1..n |->
        LET ks == Ascending(KidsOf(n, p, a))
        IN  [k \in 1..Len(ks) |-> HeapNode(n, p, ks[k], slots, canon, collapsed)]]

IdleRoll ==
    /\ protoArrayData = <<>>
    /\ canonicalHeadIndex = 0
    /\ blockTree = EmptyNode
    /\ rollPc = "idle"

InitCompact ==
    /\ IdleSnap
    /\ IdleHelper
    /\ IdleRoll
    /\ IdlePrune
    /\ IdleMonitor
    /\ IdleServe
    /\ \E n \in 1..MaxTreeNodes :
       \E p \in TreeShapes(n) :
       \E counted \in 0..n :
          LET slots == [i \in 1..n |-> Itoa(i - 1)]
              canon == [i \in 1..n |-> FALSE]
              collapsed == [i \in 1..n |-> IF i = counted THEN 1 ELSE 0]
          IN  /\ heap = HeapOf(n, p, slots, canon, collapsed)
              /\ input = HeapNode(n, p, 1, slots, canon, collapsed)
    /\ origTree = Val(input, heap)
    /\ result = EmptyNode
    /\ firstResult = EmptyNode
    /\ compactPc = "call"

\* result := compactSingleChildren(input)
CompactOnce ==
    /\ compactPc = "call"
    /\ LET r == compactSingleChildren(input, heap)
       IN  /\ result' = r.node
           /\ heap' = r.heap
           /\ firstResult' = Val(r.node, r.heap)
    /\ compactPc' = "once"
    /\ UNCHANGED <<input, origTree, rollVars, pruneVars, monitorVars,
                   serveVars, snapVars,
                   helperVars>>

\* result := compactSingleChildren(result)
CompactTwice ==
    /\ compactPc = "once"
    /\ LET r == compactSingleChildren(result, heap)
       IN  /\ result' = r.node
           /\ heap' = r.heap
    /\ compactPc' = "twice"
    /\ UNCHANGED <<input, origTree, firstResult, rollVars, pruneVars,
                   monitorVars, serveVars, snapVars,
                   helperVars>>

NextCompact == CompactOnce \/ CompactTwice

SpecCompact == InitCompact /\ [][NextCompact]_vars

(***************************************************************************)
(* Properties of compactSingleChildren.                                    *)
(***************************************************************************)
RECURSIVE SumCollapsed(_)
SumCollapsed(t) ==
    LET RECURSIVE Sum(_)
        Sum(k) == IF k = 0 THEN 0 ELSE SumCollapsed(t.Children[k]) + Sum(k - 1)
    IN  t.CountCollapsedBlocks + Sum(Len(t.Children))

\* C4: after the call the caller's tree is the tree it was before the call.
InputTreeUnchanged ==
    compactPc \in {"once", "twice"} => Val(input, heap) = origTree

\* C5: for a tree whose counts are all zero, the nodes of the result plus
\* the counts in the result are the nodes of the original tree.
CompactionConserves ==
    (compactPc = "once" /\ SumCollapsed(origTree) = 0)
    => TreeSize(firstResult) + SumCollapsed(firstResult) = TreeSize(origTree)

\* A chain of at least two skipped nodes and a fork, in one tree.
CompactionConservesWitness ==
    /\ compactPc = "once"
    /\ SumCollapsed(origTree) = 0
    /\ SumCollapsed(firstResult) >= 2
    /\ \E n \in NodesOf(firstResult) : Len(n.Children) >= 2
    /\ TreeSize(firstResult) + SumCollapsed(firstResult) = TreeSize(origTree)

\* C6: the second application returns the tree the first returned, counts
\* included.
CompactionIdempotent ==
    compactPc = "twice" => Val(result, heap) = firstResult

CompactionIdempotentWitness ==
    /\ compactPc = "twice"
    /\ firstResult # origTree
    /\ firstResult.CountCollapsedBlocks >= 2
    /\ Val(result, heap) = firstResult

RECURSIVE ChainEnd(_)
ChainEnd(t) ==
    IF Len(t.Children) = 1
    THEN LET r == ChainEnd(t.Children[1])
         IN  [node |-> r.node, skipped |-> r.skipped + 1]
    ELSE [node |-> t, skipped |-> 0]

IsChain(t) == \A n \in NodesOf(t) : Len(n.Children) <= 1

\* C16: for an input with all counts zero, a node of the result with
\* exactly one child had exactly one child in the input, its child now is
\* the nearest leaf or fork down the chain of only children, and its count
\* is the number of nodes skipped on the way; so a chain of n >= 2 nodes
\* becomes its root over its last node with count n - 2.
CollapsesToNearestLeafOrFork ==
    (compactPc = "once" /\ SumCollapsed(origTree) = 0)
    => /\ \A r \in NodesOf(firstResult) :
             Len(r.Children) = 1
             => \E o \in NodesOf(origTree) :
                   /\ o.Root = r.Root
                   /\ Len(o.Children) = 1
                   /\ r.Children[1].Root = ChainEnd(o.Children[1]).node.Root
                   /\ Len(r.Children[1].Children)
                         = Len(ChainEnd(o.Children[1]).node.Children)
                   /\ r.CountCollapsedBlocks = ChainEnd(o.Children[1]).skipped
       /\ (IsChain(origTree) /\ TreeSize(origTree) >= 2)
             => /\ TreeSize(firstResult) = 2
                /\ firstResult.Root = origTree.Root
                /\ firstResult.Children[1].Root = ChainEnd(origTree).node.Root
                /\ firstResult.CountCollapsedBlocks = TreeSize(origTree) - 2

\* Under a fork at the root, the chain of three nodes below one of its
\* children was collapsed onto that child.
CollapsesToNearestLeafOrForkWitness ==
    /\ compactPc = "once"
    /\ SumCollapsed(origTree) = 0
    /\ Len(firstResult.Children) = 2
    /\ firstResult.CountCollapsedBlocks = 0
    /\ \E k \in 1..Len(firstResult.Children) :
          LET c == firstResult.Children[k]
          IN  /\ Len(c.Children) = 1
              /\ c.CountCollapsedBlocks = 2
              /\ Len(c.Children[1].Children) = 0

\* In a tree of values: the pairs of roots of a node and a node below it.
RECURSIVE AncestorPairs(_)
AncestorPairs(t) ==
    UNION {{<<t.Root, d.Root>> : d \in NodesOf(t.Children[k])}
              \cup AncestorPairs(t.Children[k]) : k \in 1..Len(t.Children)}

RootsOf(t) == {n.Root : n \in NodesOf(t)}

\* C23: every node of the input without children or with two or more is
\* in the result under its root with as many children, and among the nodes
\* of the result one is below another exactly when it was in the input.
ForksAndLeavesSurvive ==
    compactPc = "once"
    => /\ \A o \in NodesOf(origTree) :
             Len(o.Children) # 1
             => \E r \in NodesOf(firstResult) :
                   /\ r.Root = o.Root
                   /\ Len(r.Children) = Len(o.Children)
       /\ AncestorPairs(firstResult)
             = {pr \in AncestorPairs(origTree) :
                   pr[1] \in RootsOf(firstResult) /\ pr[2] \in RootsOf(firstResult)}

\* A chain from the root down to a fork with a leaf and a chain below it
\* was compacted: the fork and the leaves are there, one node is gone.
ForksAndLeavesSurviveWitness ==
    /\ compactPc = "once"
    /\ Len(origTree.Children) = 1
    /\ Len(origTree.Children[1].Children) = 1
    /\ Len(origTree.Children[1].Children[1].Children) = 2
    /\ TreeSize(origTree) = MaxTreeNodes
    /\ TreeSize(firstResult) = MaxTreeNodes - 1
    /\ Len(firstResult.Children) = 1
    /\ firstResult.Children[1].Root = origTree.Children[1].Children[1].Root
    /\ Len(firstResult.Children[1].Children) = 2

(***************************************************************************)
(* pruneForBrowser.                                                        *)
(***************************************************************************)
\* Go's integer division truncates toward zero.
GoDiv(a, b) ==
    IF (a >= 0) = (b >= 0) THEN (IF a >= 0 THEN a ELSE 0 - a) \div
                                (IF b >= 0 THEN b ELSE 0 - b)
    ELSE 0 - ((IF a >= 0 THEN a ELSE 0 - a) \div (IF b >= 0 THEN b ELSE 0 - b))

computeCurrentSlot(now, genesisTime, secondsPerSlot) ==
    GoDiv(now - genesisTime, secondsPerSlot)

\* The target without the test of targetEpoch < 0.
TargetSlotUnclamped(now, cfg) ==
    LET currentSlot  == computeCurrentSlot(now, cfg.GenesisTime, cfg.SecondsPerSlot)
        currentEpoch == GoDiv(currentSlot, cfg.SlotsPerEpoch)
    IN  (currentEpoch - epochsToSend) * cfg.SlotsPerEpoch

\* The first lines of pruneForBrowser: the slot the walk aims at.
TargetSlot(now, cfg) ==
    LET currentSlot  == computeCurrentSlot(now, cfg.GenesisTime, cfg.SecondsPerSlot)
        currentEpoch == GoDiv(currentSlot, cfg.SlotsPerEpoch)
        targetEpoch  == IF currentEpoch - epochsToSend < 0 THEN 0
                        ELSE currentEpoch - epochsToSend
    IN  targetEpoch * cfg.SlotsPerEpoch

\* Taking the first child, canonical or not.
FirstChild(children) == IF Len(children) = 0 THEN 0 ELSE 1

\* The inner loop: the place of the first child marked canonical, 0 if none.
FirstCanonical(children) ==
    IF \E k \in 1..Len(children) : children[k].IsCanonical
    THEN CHOOSE k \in 1..Len(children) :
            /\ children[k].IsCanonical
            /\ \A j \in 1..(k - 1) : ~children[j].IsCanonical
    ELSE 0

\* From the call to the first test of the outer loop.
PruneCall ==
    /\ prunePc = "call"
    /\ targetSlot' = TargetSlot(clock, eth2)
    /\ pruneNode' = pruneInput
    /\ LET a == Atoi(pruneInput.Slot)
       IN  /\ prunePc' = IF a.err THEN "returned" ELSE "loop"
           /\ pruneSlot' = a.val
    /\ UNCHANGED <<pruneInput, clock, eth2, spins, rollVars, compactVars,
                   monitorVars, serveVars, snapVars,
                   helperVars>>

\* One test of "pruneSlot < targetSlot" and one pass of the body of the loop.
PruneLoop ==
    /\ prunePc = "loop"
    /\ spins < MaxSpins
    /\ LET k == FirstCanonical(pruneNode.Children)
       IN  IF ~(pruneSlot < targetSlot) \/ Len(pruneNode.Children) = 0
           THEN prunePc' = "returned" /\ UNCHANGED <<pruneNode, pruneSlot, spins>>
           ELSE IF k = 0
           THEN UNCHANGED <<pruneNode, pruneSlot, prunePc>> /\ spins' = spins + 1
           ELSE /\ pruneNode' = pruneNode.Children[k]
                /\ LET a == Atoi(pruneNode.Children[k].Slot)
                   IN  /\ prunePc' = IF a.err THEN "returned" ELSE "loop"
                       /\ pruneSlot' = a.val
                /\ spins' = spins
    /\ UNCHANGED <<pruneInput, clock, eth2, targetSlot, rollVars, compactVars,
                   monitorVars, serveVars, snapVars,
                   helperVars>>

(***************************************************************************)
(* Inputs of pruneForBrowser.                                              *)
(***************************************************************************)
SlotStrings == {<<"2">>, <<"1", "0">>, <<"x">>}

Eth2Configs ==
    {[GenesisTime |-> 0, SecondsPerSlot |-> 1, SlotsPerEpoch |-> 1],
     [GenesisTime |-> 1, SecondsPerSlot |-> 1, SlotsPerEpoch |-> 2]}

InitPrune ==
    /\ IdleSnap
    /\ IdleHelper
    /\ IdleRoll
    /\ IdleCompact
    /\ IdleMonitor
    /\ IdleServe
    /\ \E n \in 1..MaxPruneNodes :
       \E p \in TreeShapes(n) :
       \E slots \in [1..n -> SlotStrings] :
       \E canon \in [1..n -> BOOLEAN] :
          LET zero == [i \in 1..n |-> 0]
          IN  pruneInput = Val(HeapNode(n, p, 1, slots, canon, zero),
                               HeapOf(n, p, slots, canon, zero))
    /\ clock \in 0..MaxClock
    /\ eth2 \in Eth2Configs
    /\ targetSlot = 0
    /\ pruneNode = EmptyNode
    /\ pruneSlot = 0
    /\ prunePc = "call"
    /\ spins = 0

NextPrune == PruneCall \/ PruneLoop

SpecPrune == InitPrune /\ [][NextPrune]_vars

(***************************************************************************)
(* Properties of pruneForBrowser.                                          *)
(***************************************************************************)
\* C3: a pass of the loop that finds children but none of them canonical
\* returns the current pruneNode: the walk is never still in the loop after it.
PruneReturnsWithoutCanonicalChild ==
    prunePc = "loop" => spins = 0

\* The nodes reached from t by steps to children marked canonical.
RECURSIVE CanonicalDescent(_)
CanonicalDescent(t) ==
    {t} \cup UNION {CanonicalDescent(t.Children[k]) :
                       k \in {j \in 1..Len(t.Children) : t.Children[j].IsCanonical}}

\* Every slot of the tree parses and no child's slot is below its parent's.
SlotsAscend(t) ==
    \A n \in NodesOf(t) :
        /\ ~Atoi(n.Slot).err
        /\ \A k \in 1..Len(n.Children) :
              /\ ~Atoi(n.Children[k].Slot).err
              /\ Atoi(n.Children[k].Slot).val >= Atoi(n.Slot).val

\* C10 as stated: the returned pruneNode's slot is at least the root's slot and
\* the returned pruneNode is reached from the root by canonical steps.
PruneNeverGoesBack ==
    prunePc = "returned"
    => /\ (~Atoi(pruneNode.Slot).err /\ ~Atoi(pruneInput.Slot).err)
            => Atoi(pruneNode.Slot).val >= Atoi(pruneInput.Slot).val
       /\ pruneNode \in CanonicalDescent(pruneInput)

\* C10 amended: the returned pruneNode is reached from the root by canonical
\* steps, and its slot is at least the root's slot in a tree whose slots
\* all parse and never decrease from a parent to its child.
PruneFollowsCanonicalChildren ==
    prunePc = "returned"
    => /\ pruneNode \in CanonicalDescent(pruneInput)
       /\ SlotsAscend(pruneInput)
            => /\ ~Atoi(pruneNode.Slot).err
               /\ Atoi(pruneNode.Slot).val >= Atoi(pruneInput.Slot).val

\* A walk of two steps, past a first child that is not canonical.
PruneFollowsCanonicalChildrenWitness ==
    /\ prunePc = "returned"
    /\ SlotsAscend(pruneInput)
    /\ pruneNode # pruneInput
    /\ Atoi(pruneNode.Slot).val > Atoi(pruneInput.Slot).val
    /\ \E k \in 2..Len(pruneInput.Children) :
          /\ pruneInput.Children[k] = pruneNode
          /\ ~pruneInput.Children[1].IsCanonical

\* The larger of two numbers.
Max(a, b) == IF a >= b THEN a ELSE b

\* target_slot as the specification words it, with the epoch of the
\* current slot counted from genesis.
WindowStart(now, cfg) ==
    Max(0, (((now - cfg.GenesisTime) \div cfg.SecondsPerSlot)
               \div cfg.SlotsPerEpoch) - epochsToSend) * cfg.SlotsPerEpoch

\* The descent from t that always moves to the first child marked
\* canonical: where it ends and why.  "found": the node's slot is at least
\* the target; "childless": it has no children; "unparsable": its slot is
\* no number; "stuck": it has children and none is marked canonical.
RECURSIVE Descent(_, _)
Descent(t, target) ==
    IF Atoi(t.Slot).err THEN [kind |-> "unparsable", node |-> t]
    ELSE IF Atoi(t.Slot).val >= target THEN [kind |-> "found", node |-> t]
    ELSE IF Len(t.Children) = 0 THEN [kind |-> "childless", node |-> t]
    ELSE IF \A k \in 1..Len(t.Children) : ~t.Children[k].IsCanonical
         THEN [kind |-> "stuck", node |-> t]
    ELSE Descent(t.Children[CHOOSE k \in 1..Len(t.Children) :
                               /\ t.Children[k].IsCanonical
                               /\ \A j \in 1..(k - 1) :
                                     ~t.Children[j].IsCanonical],
                 target)

\* C17: the target is max(0, current_epoch - 4) * slots_per_epoch, and a
\* walk over parsable slots returns the first node of the descent by
\* first canonical children whose slot is at least the target, or the
\* childless node the descent ends at; a root at or past the target is
\* returned as it is, subtree and all.
PruneReturnsFirstNodeInWindow ==
    /\ prunePc \in {"loop", "returned"}
          => targetSlot = WindowStart(clock, eth2)
    /\ (prunePc = "returned"
        /\ Descent(pruneInput, targetSlot).kind \in {"found", "childless"})
          => pruneNode = Descent(pruneInput, targetSlot).node
    /\ (prunePc = "returned"
        /\ ~Atoi(pruneInput.Slot).err
        /\ Atoi(pruneInput.Slot).val >= targetSlot)
          => pruneNode = pruneInput

\* A walk of two steps down to a grandchild inside the window, with a
\* target above zero.
PruneReturnsFirstNodeInWindowWitness ==
    /\ prunePc = "returned"
    /\ targetSlot > 0
    /\ Descent(pruneInput, targetSlot).kind = "found"
    /\ Len(pruneInput.Children) = 1
    /\ Len(pruneInput.Children[1].Children) = 1
    /\ pruneNode = pruneInput.Children[1].Children[1]
    /\ Atoi(pruneNode.Slot).val >= targetSlot

\* A slot that reads as a number: decimal digits, at least one.
IsDecimal(str) ==
    Len(str) > 0 /\ \A k \in 1..Len(str) : IsDigit(str[k])

\* C18: a root whose slot is no number is returned at once; the walk never
\* goes on from a node whose slot is no number; and a returned node other
\* than the root whose slot is no number is a child marked canonical that
\* the walk stepped to.
UnparsableSlotStopsWalk ==
    /\ (prunePc # "call" /\ ~IsDecimal(pruneInput.Slot))
          => (prunePc = "returned" /\ pruneNode = pruneInput)
    /\ prunePc = "loop" => IsDecimal(pruneNode.Slot)
    /\ (prunePc = "returned" /\ ~IsDecimal(pruneNode.Slot)
        /\ pruneNode # pruneInput)
          => /\ pruneNode.IsCanonical
             /\ pruneNode \in CanonicalDescent(pruneInput)

\* The walk stepped from a root below the target to its canonical child,
\* whose slot is no number, and returned that child with its own child.
UnparsableSlotStopsWalkWitness ==
    /\ prunePc = "returned"
    /\ IsDecimal(pruneInput.Slot)
    /\ ~IsDecimal(pruneNode.Slot)
    /\ Len(pruneInput.Children) = 1
    /\ pruneNode = pruneInput.Children[1]
    /\ Len(pruneNode.Children) = 1
    /\ pruneNode.Children[1].IsCanonical

(***************************************************************************)
(* Monitor.buildLatestForkChoiceSummary.                                   *)
(***************************************************************************)
\* The weight the client takes as the total: that of the root entry, which
\* accumulates the weight of all its descendants.
extractTotalWeight(protoArray) == protoArray[1].Weight

\* What fetchProtoArray can return: an error, or the decoded node list, in
\* the shape a proto-array has (entry 0 the root, parents before children).
FetchResults ==
    {[err |-> TRUE, nodes |-> <<>>]} \cup
    UNION {{[err |-> FALSE, nodes |-> ProtoArrayOf(n, p, marked, head)] :
               p \in TreeShapes(n), marked \in SUBSET (1..n),
               head \in 0..(IF n = 0 THEN 0 ELSE n - 1)} :
           n \in 0..MaxFetchedNodes}

\* The call of fetchProtoArray that buildLatestForkChoiceSummary starts
\* with: the provider answers, or the request or the decoding fails.
FetchProtoArray ==
    /\ buildPc \in {"ready", "published"}
    /\ fetched' \in FetchResults
    /\ buildPc' = "fetched"
    /\ UNCHANGED <<forkChoiceSummary, forkChoiceTotalWeight>>
    /\ UNCHANGED <<rollVars, compactVars, pruneVars, serveVars, snapVars,
                   helperVars>>

\* The rest of buildLatestForkChoiceSummary, from the test of err to the
\* return.  protoArray[0] on an empty list panics, and the panic ends the
\* program; an error goes up through fetchHeads to errc and ends the head
\* monitor.
BuildLatestForkChoiceSummary ==
    /\ buildPc = "fetched"
    /\ IF fetched.err
       THEN /\ buildPc' = "error"
            /\ UNCHANGED <<forkChoiceSummary, forkChoiceTotalWeight>>
       ELSE IF Len(fetched.nodes) = 0
       THEN /\ buildPc' = "panic"
            /\ UNCHANGED <<forkChoiceSummary, forkChoiceTotalWeight>>
       ELSE /\ buildPc' = "published"
            /\ forkChoiceSummary' =
                  computeSummary(fetched.nodes,
                                 fetched.nodes[1].BestDescendant).tree
            /\ forkChoiceTotalWeight' = extractTotalWeight(fetched.nodes)
    /\ UNCHANGED <<fetched, rollVars, compactVars, pruneVars, serveVars, snapVars,
                   helperVars>>

InitBuild ==
    /\ IdleSnap
    /\ IdleHelper
    /\ IdleRoll
    /\ IdleCompact
    /\ IdlePrune
    /\ IdleServe
    /\ forkChoiceSummary = EmptyNode
    /\ forkChoiceTotalWeight = 0
    /\ fetched = [err |-> FALSE, nodes |-> <<>>]
    /\ buildPc = "ready"

NextBuild == FetchProtoArray \/ BuildLatestForkChoiceSummary

SpecBuild == InitBuild /\ [][NextBuild]_vars

(***************************************************************************)
(* Properties of the build.                                                *)
(***************************************************************************)
\* C8: a provider response that decodes to an empty node list ends the
\* build, and rollProtoArray on the empty array, in an InvalidInput error
\* and not in an index out of range.
EmptyProtoArrayIsInvalidInput ==
    (buildPc \notin {"ready", "fetched"} /\ ~fetched.err /\ Len(fetched.nodes) = 0)
    => /\ buildPc = "InvalidInput"
       /\ ~rollProtoArray(fetched.nodes, 0).panic

\* C21: the tree a build publishes is the tree rollProtoArray returns
\* for the fetched array and its root's best_descendant, not compacted, so
\* count_collapsed_blocks is zero at every node of it.
PublishedTreeIsUncompacted ==
    buildPc = "published"
    => /\ forkChoiceSummary =
             rollProtoArray(fetched.nodes, fetched.nodes[1].BestDescendant).tree
       /\ \A n \in NodesOf(forkChoiceSummary) : n.CountCollapsedBlocks = 0

\* A chain of three nodes was published with its middle node in place.
PublishedTreeIsUncompactedWitness ==
    /\ buildPc = "published"
    /\ Len(fetched.nodes) = 3
    /\ Len(forkChoiceSummary.Children) = 1
    /\ Len(forkChoiceSummary.Children[1].Children) = 1
    /\ forkChoiceSummary.CountCollapsedBlocks = 0

(***************************************************************************)
(* Monitor.Serve: the goroutine of startHeadMonitor, the goroutines of     *)
(* fetchLatestHead that fetchHeads starts, and an HTTP handler serving     *)
(* /fork-choice and /fork-choice-dot, as they interleave.                  *)
(***************************************************************************)
Nodes == 1..NumNodes

\* Entering Lock without waiting for the mutex.
TryLockAlways(l) == TRUE

\* sync.Mutex.Lock returns only when the mutex is free.
TryLock(l) == l = "free"

\* Returning from Unlock with the mutex still held.
UnlockKeeps(l) == l

\* sync.Mutex.Unlock.
Unlock(l) == "free"

\* Returning from Wait with fetches still running.
WaitDoneEarly(w) == TRUE

\* sync.WaitGroup.Wait returns when the counter is zero.
WaitDone(w) == w = 0

\* A build that goes on with the nodes decoded before the error.
buildOutcomeIgnoresErr(f) ==
    IF Len(f.nodes) = 0 THEN "panic" ELSE "ok"

\* How buildLatestForkChoiceSummary goes on after fetchProtoArray: it
\* returns the error, or protoArray[0] panics, or it computes and publishes.
buildOutcome(f) ==
    IF f.err THEN "error"
    ELSE IF Len(f.nodes) = 0 THEN "panic"
    ELSE "ok"

\* What fetchProtoArray returns to the running monitor: an error with no
\* nodes (the request failed), an error with the nodes decoded before it
\* (the body was cut short), or a proto-array whose root names the last
\* entry as its best descendant.
ServedArrays ==
    UNION {{ProtoArrayOf(n, p, {1} \cap (1..n), IF n = 0 THEN 0 ELSE n - 1) :
               p \in TreeShapes(n)} : n \in 0..MaxServedNodes}

ServeFetchResults ==
    {[err |-> TRUE, nodes |-> <<>>]}
    \cup {[err |-> TRUE, nodes |-> a] : a \in {b \in ServedArrays : Len(b) = 1}}
    \cup {[err |-> FALSE, nodes |-> a] : a \in ServedArrays}

\* The wall-clock readings of the requests: inside the window of
\* epochsToSend epochs and just past it.
ServeClocks == {0, epochsToSend + 1}

\* The program runs until Serve returns (main then exits) or a goroutine
\* panics.
Running == servePc = "waiting" /\ ~panicked

handlerVars ==
    <<reqPc, reqSummary, reqWeight, resp, reqAfterFailure, reqPub>>

headVars ==
    <<latestHead, isHealthy, nextNode, wg, fetchPc, lastBlockTreeHead>>

\* FromConfig and the go statements of Serve: every registered node has
\* answered one head fetch; the provider is the Lighthouse node, if any.
InitServe ==
    /\ IdleSnap
    /\ IdleHelper
    /\ IdleRoll
    /\ IdleCompact
    /\ IdlePrune
    /\ IdleMonitor
    /\ provider \in {0, 1}
    /\ latestHead = [n \in Nodes |-> 1]
    /\ isHealthy = [n \in Nodes |-> TRUE]
    /\ forkchoiceLock = "free"
    /\ monPc = "start"
    /\ nextNode = 1
    /\ wg = 0
    /\ fetchPc = [n \in Nodes |-> "idle"]
    /\ lastBlockTreeHead = 0
    /\ servePc = "waiting"
    /\ panicked = FALSE
    /\ reqPc = "idle"
    /\ reqSummary = EmptyNode
    /\ reqWeight = 0
    /\ resp = [Status |-> 0, BlockTree |-> EmptyNode, TotalWeight |-> 0]
    /\ reqAfterFailure = FALSE
    /\ reqPub = <<>>
    /\ lastPub = <<EmptyNode, 0>>
    /\ failedAt = <<>>
    /\ cycleStarted = FALSE
    /\ cycleHead = 0

\* startHeadMonitor up to its first call.
MonStart ==
    /\ Running
    /\ monPc = "start"
    /\ monPc' = IF provider # 0 THEN "build" ELSE "fetchHeads"
    /\ UNCHANGED <<provider, headVars, forkchoiceLock, servePc, panicked,
                   handlerVars, lastPub, failedAt, cycleStarted, cycleHead>>
    /\ UNCHANGED <<rollVars, compactVars, pruneVars, monitorVars, snapVars,
                   helperVars>>

\* buildLatestForkChoiceSummary: the call of fetchProtoArray.
MonFetchProtoArray ==
    /\ Running
    /\ monPc = "build"
    /\ fetched' \in ServeFetchResults
    /\ failedAt' = IF fetched'.err
                   THEN <<<<forkChoiceSummary, forkChoiceTotalWeight>>>>
                   ELSE failedAt
    /\ monPc' = "fetched"
    /\ UNCHANGED <<forkChoiceSummary, forkChoiceTotalWeight, buildPc>>
    /\ UNCHANGED <<provider, headVars, forkchoiceLock, servePc, panicked,
                   handlerVars, lastPub, cycleStarted, cycleHead>>
    /\ UNCHANGED <<rollVars, compactVars, pruneVars, snapVars,
                   helperVars>>

\* From the test of err to the call of Lock: on an error the build returns
\* it, and fetchHeads and startHeadMonitor pass it on to errc.
MonCompute ==
    /\ Running
    /\ monPc = "fetched"
    /\ LET o == buildOutcome(fetched)
       IN  /\ monPc' = IF o = "error" THEN "sendErr"
                       ELSE IF o = "panic" THEN "panic" ELSE "lock"
           /\ panicked' = (o = "panic")
    /\ UNCHANGED <<provider, headVars, forkchoiceLock, servePc, handlerVars,
                   lastPub, failedAt, cycleStarted, cycleHead>>
    /\ UNCHANGED <<rollVars, compactVars, pruneVars, monitorVars, snapVars,
                   helperVars>>

\* m.forkchoiceLock.Lock()
MonLock ==
    /\ Running
    /\ monPc = "lock"
    /\ TryLock(forkchoiceLock)
    /\ forkchoiceLock' = "monitor"
    /\ monPc' = "assignChildren"
    /\ UNCHANGED <<provider, headVars, servePc, panicked, handlerVars,
                   lastPub, failedAt, cycleStarted, cycleHead>>
    /\ UNCHANGED <<rollVars, compactVars, pruneVars, monitorVars, snapVars,
                   helperVars>>

\* m.forkChoiceSummary = summary copies a struct of several words: here
\* the slice first, then the other fields.
MonAssignChildren ==
    /\ Running
    /\ monPc = "assignChildren"
    /\ forkChoiceSummary' =
          [forkChoiceSummary EXCEPT !.Children =
              computeSummary(fetched.nodes,
                             fetched.nodes[1].BestDescendant).tree.Children]
    /\ monPc' = "assignFields"
    /\ UNCHANGED <<forkChoiceTotalWeight, fetched, buildPc>>
    /\ UNCHANGED <<provider, headVars, forkchoiceLock, servePc, panicked,
                   handlerVars, lastPub, failedAt, cycleStarted, cycleHead>>
    /\ UNCHANGED <<rollVars, compactVars, pruneVars, snapVars,
                   helperVars>>

MonAssignFields ==
    /\ Running
    /\ monPc = "assignFields"
    /\ forkChoiceSummary' =
          computeSummary(fetched.nodes, fetched.nodes[1].BestDescendant).tree
    /\ monPc' = "assignWeight"
    /\ UNCHANGED <<forkChoiceTotalWeight, fetched, buildPc>>
    /\ UNCHANGED <<provider, headVars, forkchoiceLock, servePc, panicked,
                   handlerVars, lastPub, failedAt, cycleStarted, cycleHead>>
    /\ UNCHANGED <<rollVars, compactVars, pruneVars, snapVars,
                   helperVars>>

\* m.forkChoiceTotalWeight = totalWeight
MonAssignWeight ==
    /\ Running
    /\ monPc = "assignWeight"
    /\ forkChoiceTotalWeight' = extractTotalWeight(fetched.nodes)
    /\ lastPub' = <<forkChoiceSummary, extractTotalWeight(fetched.nodes)>>
    /\ monPc' = "unlock"
    /\ UNCHANGED <<forkChoiceSummary, fetched, buildPc>>
    /\ UNCHANGED <<provider, headVars, forkchoiceLock, servePc, panicked,
                   handlerVars, failedAt, cycleStarted, cycleHead>>
    /\ UNCHANGED <<rollVars, compactVars, pruneVars, snapVars,
                   helperVars>>

\* The deferred Unlock and the return of nil, to startHeadMonitor or to
\* fetchHeads: either way the next thing is a call of fetchHeads.  The
\* local protoArray ends here.
MonUnlock ==
    /\ Running
    /\ monPc = "unlock"
    /\ forkchoiceLock' = Unlock(forkchoiceLock)
    /\ monPc' = "fetchHeads"
    /\ fetched' = [err |-> FALSE, nodes |-> <<>>]
    /\ cycleHead' = 0
    /\ UNCHANGED <<forkChoiceSummary, forkChoiceTotalWeight, buildPc>>
    /\ UNCHANGED <<provider, headVars, servePc, panicked, handlerVars,
                   lastPub, failedAt, cycleStarted>>
    /\ UNCHANGED <<rollVars, compactVars, pruneVars, snapVars,
                   helperVars>>

\* time.Sleep and the first lines of fetchHeads.
MonFetchHeads ==
    /\ Running
    /\ monPc = "fetchHeads"
    /\ monPc' = "spawn"
    /\ nextNode' = 1
    /\ wg' = 0
    /\ fetchPc' = [n \in Nodes |-> "idle"]
    /\ lastBlockTreeHead' = 0
    /\ cycleStarted' = TRUE
    /\ cycleHead' = IF provider # 0 THEN latestHead[provider] ELSE 0
    /\ UNCHANGED <<provider, latestHead, isHealthy, forkchoiceLock, servePc,
                   panicked, handlerVars, lastPub, failedAt>>
    /\ UNCHANGED <<rollVars, compactVars, pruneVars, monitorVars, snapVars,
                   helperVars>>

\* Noting the head of every node.
NoteHeadOfEveryNode(node, prov, head, noted) == head

\* if node == m.currentForkChoiceProvider { lastBlockTreeHead = node.latestHead }
NoteHead(node, prov, head, noted) == IF node = prov THEN head ELSE noted

\* One pass of the loop over m.nodes: wg.Add(1), the note of the
\* provider's head, and go node.fetchLatestHead(&wg).
MonSpawn ==
    /\ Running
    /\ monPc = "spawn"
    /\ nextNode \in Nodes
    /\ wg' = wg + 1
    /\ lastBlockTreeHead' = NoteHead(nextNode, provider, latestHead[nextNode],
                                     lastBlockTreeHead)
    /\ fetchPc' = [fetchPc EXCEPT ![nextNode] = "running"]
    /\ nextNode' = nextNode + 1
    /\ UNCHANGED <<provider, latestHead, isHealthy, forkchoiceLock, monPc,
                   servePc, panicked, handlerVars, lastPub, failedAt,
                   cycleStarted, cycleHead>>
    /\ UNCHANGED <<rollVars, compactVars, pruneVars, monitorVars, snapVars,
                   helperVars>>

\* The goroutine of Node.fetchLatestHead: the request fails, or the answer
\* has the head the node had, or a new head, or it lacks a field and the
\* type assertion panics.
FetchLatestHead(n) ==
    /\ Running
    /\ fetchPc[n] = "running"
    /\ \E outcome \in {"error", "same", "new", "panic"} :
          /\ outcome = "new" => latestHead[n] < MaxHeads
          /\ isHealthy' = IF outcome = "panic" THEN isHealthy
                          ELSE [isHealthy EXCEPT ![n] = (outcome # "error")]
          /\ latestHead' = IF outcome = "new"
                           THEN [latestHead EXCEPT ![n] = @ + 1]
                           ELSE latestHead
          /\ panicked' = (outcome = "panic")
    /\ fetchPc' = [fetchPc EXCEPT ![n] = "done"]
    /\ wg' = wg - 1
    /\ UNCHANGED <<provider, forkchoiceLock, monPc, nextNode,
                   lastBlockTreeHead, servePc, handlerVars, lastPub,
                   failedAt, cycleStarted, cycleHead>>
    /\ UNCHANGED <<rollVars, compactVars, pruneVars, monitorVars, snapVars,
                   helperVars>>

\* wg.Wait() and the rest of fetchHeads: a build if the provider's head
\* is not the one noted before the fetches.  The loop variable and
\* lastBlockTreeHead are not read again.
MonWait ==
    /\ Running
    /\ monPc = "spawn"
    /\ nextNode \notin Nodes
    /\ WaitDone(wg)
    /\ monPc' = IF provider # 0 /\ latestHead[provider] # lastBlockTreeHead
                THEN "build" ELSE "fetchHeads"
    /\ nextNode' = 1
    /\ lastBlockTreeHead' = 0
    /\ cycleHead' = IF monPc' = "build" THEN cycleHead ELSE 0
    /\ UNCHANGED <<provider, latestHead, isHealthy, wg, fetchPc,
                   forkchoiceLock, servePc, panicked,
                   handlerVars, lastPub, failedAt, cycleStarted>>
    /\ UNCHANGED <<rollVars, compactVars, pruneVars, monitorVars, snapVars,
                   helperVars>>

\* m.errc <- err in startHeadMonitor, received by Serve, which returns it
\* to main.
MonSendErr ==
    /\ Running
    /\ monPc = "sendErr"
    /\ monPc' = "done"
    /\ servePc' = "returned"
    /\ UNCHANGED <<provider, headVars, forkchoiceLock, panicked, handlerVars,
                   lastPub, failedAt, cycleStarted, cycleHead>>
    /\ UNCHANGED <<rollVars, compactVars, pruneVars, monitorVars, snapVars,
                   helperVars>>

\* sendForkChoice: m.forkchoiceLock.Lock()
ReqLock ==
    /\ Running
    /\ reqPc = "idle"
    /\ TryLock(forkchoiceLock)
    /\ forkchoiceLock' = "handler"
    /\ reqPc' = "copySummary"
    /\ resp' = [Status |-> 0, BlockTree |-> EmptyNode, TotalWeight |-> 0]
    /\ reqAfterFailure' = (failedAt # <<>>)
    /\ reqPub' = lastPub
    /\ UNCHANGED <<provider, headVars, monPc, servePc, panicked, reqSummary,
                   reqWeight, lastPub, failedAt, cycleStarted, cycleHead>>
    /\ UNCHANGED <<rollVars, compactVars, pruneVars, monitorVars, snapVars,
                   helperVars>>

\* forkChoiceSummary := m.forkChoiceSummary
ReqCopySummary ==
    /\ Running
    /\ reqPc = "copySummary"
    /\ reqSummary' = forkChoiceSummary
    /\ reqPc' = "copyWeight"
    /\ UNCHANGED <<provider, headVars, forkchoiceLock, monPc, servePc,
                   panicked, reqWeight, resp, reqAfterFailure, reqPub, lastPub,
                   failedAt, cycleStarted, cycleHead>>
    /\ UNCHANGED <<rollVars, compactVars, pruneVars, monitorVars, snapVars,
                   helperVars>>

\* totalWeight := m.forkChoiceTotalWeight
ReqCopyWeight ==
    /\ Running
    /\ reqPc = "copyWeight"
    /\ reqWeight' = forkChoiceTotalWeight
    /\ reqPc' = "unlock"
    /\ UNCHANGED <<provider, headVars, forkchoiceLock, monPc, servePc,
                   panicked, reqSummary, resp, reqAfterFailure, reqPub, lastPub,
                   failedAt, cycleStarted, cycleHead>>
    /\ UNCHANGED <<rollVars, compactVars, pruneVars, monitorVars, snapVars,
                   helperVars>>

\* m.forkchoiceLock.Unlock() and the call of pruneForBrowser, which reads
\* the clock.
ReqUnlock ==
    /\ Running
    /\ reqPc = "unlock"
    /\ forkchoiceLock' = Unlock(forkchoiceLock)
    /\ reqPc' = "prune"
    /\ pruneInput' = reqSummary
    /\ clock' \in ServeClocks
    /\ prunePc' = "call"
    /\ UNCHANGED <<eth2, targetSlot, pruneNode, pruneSlot, spins>>
    /\ UNCHANGED <<provider, headVars, monPc, servePc, panicked, reqSummary,
                   reqWeight, resp, reqAfterFailure, reqPub, lastPub, failedAt,
                   cycleStarted, cycleHead>>
    /\ UNCHANGED <<rollVars, compactVars, monitorVars, snapVars,
                   helperVars>>

\* The response built from what pruneForBrowser returned, and its
\* encoding; the handler's locals end with it.
ReqEncode ==
    /\ Running
    /\ reqPc = "prune"
    /\ prunePc = "returned"
    /\ resp' = [Status |-> 200, BlockTree |-> pruneNode,
                TotalWeight |-> reqWeight]
    /\ reqPc' = "idle"
    /\ reqSummary' = EmptyNode
    /\ reqWeight' = 0
    /\ reqPub' = <<>>
    /\ pruneInput' = EmptyNode
    /\ clock' = 0
    /\ targetSlot' = 0
    /\ pruneNode' = EmptyNode
    /\ pruneSlot' = 0
    /\ prunePc' = "idle"
    /\ UNCHANGED <<eth2, spins>>
    /\ UNCHANGED <<provider, headVars, forkchoiceLock, monPc, servePc,
                   panicked, reqAfterFailure, lastPub, failedAt,
                   cycleStarted, cycleHead>>
    /\ UNCHANGED <<rollVars, compactVars, monitorVars, snapVars,
                   helperVars>>

\* sendForkChoiceAsDOT: m.forkchoiceLock.Lock()
ReqLockDot ==
    /\ Running
    /\ reqPc = "idle"
    /\ TryLock(forkchoiceLock)
    /\ forkchoiceLock' = "handler"
    /\ reqPc' = "dot"
    /\ resp' = [Status |-> 0, BlockTree |-> EmptyNode, TotalWeight |-> 0]
    /\ UNCHANGED <<provider, headVars, monPc, servePc, panicked, reqSummary,
                   reqWeight, reqAfterFailure, reqPub, lastPub, failedAt,
                   cycleStarted, cycleHead>>
    /\ UNCHANGED <<rollVars, compactVars, pruneVars, monitorVars, snapVars,
                   helperVars>>

\* buildDOT and g.Write under the lock, and the deferred Unlock.
ReqDotReturn ==
    /\ Running
    /\ reqPc = "dot"
    /\ forkchoiceLock' = Unlock(forkchoiceLock)
    /\ reqPc' = "idle"
    /\ UNCHANGED <<provider, headVars, monPc, servePc, panicked, reqSummary,
                   reqWeight, resp, reqAfterFailure, reqPub, lastPub, failedAt,
                   cycleStarted, cycleHead>>
    /\ UNCHANGED <<rollVars, compactVars, pruneVars, monitorVars, snapVars,
                   helperVars>>

\* The steps of pruneForBrowser inside the handler.
ReqPruneCall == Running /\ reqPc = "prune" /\ PruneCall

ReqPruneLoop == Running /\ reqPc = "prune" /\ PruneLoop

NextServe ==
    \/ MonStart
    \/ MonFetchProtoArray
    \/ MonCompute
    \/ MonLock
    \/ MonAssignChildren
    \/ MonAssignFields
    \/ MonAssignWeight
    \/ MonUnlock
    \/ MonFetchHeads
    \/ MonSpawn
    \/ \E n \in Nodes : FetchLatestHead(n)
    \/ MonWait
    \/ MonSendErr
    \/ ReqLock
    \/ ReqCopySummary
    \/ ReqCopyWeight
    \/ ReqUnlock
    \/ ReqPruneCall
    \/ ReqPruneLoop
    \/ ReqEncode
    \/ ReqLockDot
    \/ ReqDotReturn

SpecServe == InitServe /\ [][NextServe]_vars

(***************************************************************************)
(* Properties of the running monitor.                                      *)
(***************************************************************************)
\* C11: whatever the interleaving of a rebuild with a /fork-choice
\* request: outside the rebuild's critical section the tree and weight of
\* the monitor are those of the latest publication; no publication falls
\* between the request's Lock and Unlock; and the tree and the weight the
\* request copies are those of the one publication it began with.
ReadsOnePublication ==
    /\ forkchoiceLock # "monitor"
          => <<forkChoiceSummary, forkChoiceTotalWeight>> = lastPub
    /\ reqPc \in {"copySummary", "copyWeight", "unlock"} => reqPub = lastPub
    /\ reqPc \in {"copyWeight", "unlock", "prune"} => reqSummary = reqPub[1]
    /\ reqPc \in {"unlock", "prune"} => <<reqSummary, reqWeight>> = reqPub

\* A request has copied a published tree and its weight and still holds
\* the lock, and a rebuild with another tree is waiting for the lock.
ReadsOnePublicationWitness ==
    /\ reqPc = "unlock"
    /\ forkchoiceLock = "handler"
    /\ monPc = "lock"
    /\ reqSummary # EmptyNode
    /\ computeSummary(fetched.nodes, fetched.nodes[1].BestDescendant).tree
          # reqSummary
    /\ <<reqSummary, reqWeight>> = lastPub

\* C12: once fetchProtoArray has returned an error, the published tree
\* and weight stay what they were when it did, a pair that was published
\* whole, and that pair is what a /fork-choice request beginning afterwards
\* copies and answers with.
FailedFetchKeepsPublished ==
    failedAt # <<>>
    => /\ <<forkChoiceSummary, forkChoiceTotalWeight>> = failedAt[1]
       /\ failedAt[1] = lastPub
       /\ (reqAfterFailure /\ reqPc \in {"unlock", "prune"})
             => <<reqSummary, reqWeight>> = failedAt[1]
       /\ (reqAfterFailure /\ reqPc = "idle" /\ resp.Status = 200)
             => resp.TotalWeight = failedAt[1][2]

\* After a tree was published a fetch failed with some nodes decoded, and
\* a request that began after the failure was answered.
FailedFetchKeepsPublishedWitness ==
    /\ failedAt # <<>>
    /\ fetched.err
    /\ Len(fetched.nodes) > 0
    /\ failedAt[1][1] # EmptyNode
    /\ forkChoiceSummary = failedAt[1][1]
    /\ reqAfterFailure
    /\ reqPc = "idle"
    /\ resp.Status = 200
    /\ resp.TotalWeight = failedAt[1][2]

\* C13: a failed proto-array fetch is only "no new snapshot": after it
\* the goroutine of startHeadMonitor is still polling and Serve has not
\* returned.
FailedFetchKeepsPolling ==
    failedAt # <<>> => (monPc # "done" /\ servePc = "waiting")

\* A node with empty slot and root and no children.
IsEmptyNode(n) == n.Slot = <<>> /\ n.Root = "" /\ Len(n.Children) = 0

\* C14: while no tree has been published (no provider, or no build has
\* succeeded), every /fork-choice request is answered with status 200 and
\* the empty node, and pruneForBrowser on that node returns it from its
\* first lines without entering its loop.
NothingPublishedServesEmptyNode ==
    lastPub = <<EmptyNode, 0>>
    => /\ resp.Status \in {0, 200}
       /\ resp.Status = 200
             => (IsEmptyNode(resp.BlockTree) /\ resp.TotalWeight = 0)
       /\ reqPc = "prune"
             => /\ IsEmptyNode(pruneInput)
                /\ prunePc \in {"call", "returned"}
                /\ spins = 0
                /\ prunePc = "returned" => pruneNode = pruneInput

\* Without a provider, while the head monitor polls, a request was
\* answered.
NothingPublishedServesEmptyNodeWitness ==
    /\ provider = 0
    /\ cycleStarted
    /\ lastPub = <<EmptyNode, 0>>
    /\ reqPc = "idle"
    /\ resp.Status = 200
    /\ IsEmptyNode(resp.BlockTree)
    /\ resp.TotalWeight = 0

\* C19: sendForkChoice holds forkchoiceLock only from its Lock to the end
\* of its two copies: while it prunes, and until it has encoded, the lock
\* is free or held by the rebuild.
LockHeldOnlyWhileCopying ==
    /\ reqPc = "prune" => forkchoiceLock \in {"free", "monitor"}
    /\ (forkchoiceLock = "handler" /\ reqPc # "dot")
          => reqPc \in {"copySummary", "copyWeight", "unlock"}

\* A rebuild holds the lock, between its two assignments, while the
\* request is inside the loop of pruneForBrowser.
LockHeldOnlyWhileCopyingWitness ==
    /\ reqPc = "prune"
    /\ prunePc = "loop"
    /\ reqSummary # EmptyNode
    /\ forkchoiceLock = "monitor"
    /\ monPc = "assignWeight"
    /\ forkChoiceSummary # reqSummary

\* Where the head monitor is inside buildLatestForkChoiceSummary, or past
\* it on the way out with its error or panic.
BuildPcs ==
    {"build", "fetched", "lock", "assignChildren", "assignFields",
     "assignWeight", "unlock", "sendErr", "panic"}

\* C20: when the loop of fetchHeads is over, a head fetch has been started
\* for every node, whatever the fetches already finished came to; the
\* WaitGroup counts the fetches still running; and a build started from
\* fetchHeads finds every fetch of the cycle finished.
FetchesJoinBeforeBuild ==
    /\ (monPc = "spawn" /\ nextNode \notin Nodes)
          => \A n \in Nodes : fetchPc[n] \in {"running", "done"}
    /\ monPc = "spawn"
          => wg = Cardinality({n \in Nodes : fetchPc[n] = "running"})
    /\ (cycleStarted /\ monPc \in BuildPcs)
          => \A n \in Nodes : fetchPc[n] = "done"

\* A build was started in a cycle in which the fetch of the last node
\* failed and the provider's fetch brought a new head.
FetchesJoinBeforeBuildWitness ==
    /\ cycleStarted
    /\ monPc = "build"
    /\ provider # 0
    /\ ~isHealthy[NumNodes]
    /\ isHealthy[provider]
    /\ latestHead[provider] > 1
    /\ \A n \in Nodes : fetchPc[n] = "done"

\* C28: fetchHeads goes from its fetches to a build exactly when there is
\* a provider and its latestHead is not the one it had when the cycle
\* began; and once the cycles have begun, forkChoiceSummary and
\* forkChoiceTotalWeight change only in a build that such a cycle started.
RebuildIffHeadChanged ==
    /\ [][(monPc = "spawn" /\ monPc' # "spawn")
             => ((monPc' = "build")
                    <=> (provider # 0 /\ latestHead[provider] # cycleHead))]_vars
    /\ [][(/\ cycleStarted
           /\ <<forkChoiceSummary, forkChoiceTotalWeight>>'
                 # <<forkChoiceSummary, forkChoiceTotalWeight>>)
             => /\ monPc \in BuildPcs
                /\ provider # 0
                /\ latestHead[provider] # cycleHead]_vars

\* A cycle found the provider at a new head and its build has published.
RebuildIffHeadChangedWitness ==
    /\ cycleStarted
    /\ monPc = "unlock"
    /\ provider # 0
    /\ cycleHead # 0
    /\ latestHead[provider] # cycleHead
    /\ lastPub[1] # EmptyNode
    /\ lastPub = <<forkChoiceSummary, forkChoiceTotalWeight>>

\* In a tree of values: down the only children from t, every node that has
\* exactly one child is marked canonical.
RECURSIVE ChainIsCanonical(_)
ChainIsCanonical(t) ==
    Len(t.Children) = 1
    => (t.IsCanonical /\ ChainIsCanonical(t.Children[1]))

\* C25: in the tree rollProtoArray returns, below a canonical node with one
\* child every node of the chain of only children is marked canonical.
SingleChildChainIsCanonical ==
    rollPc = "returned"
    => \A n \in NodesOf(blockTree) :
          (n.IsCanonical /\ Len(n.Children) = 1)
          => ChainIsCanonical(n.Children[1])

(***************************************************************************)
(* The published tree as Go holds it.  A ForkChoiceNode is a struct whose  *)
(* Children is a slice: copying the struct copies the slice header, and    *)
(* the copy shares the backing array.  Here Children is the address of the *)
(* backing array in arrays, 0 for a nil slice, as in compactSingleChildren.*)
(***************************************************************************)
\* Taking the first array again for every allocation.
NewArrayReused(h) == 1

\* append to a nil slice allocates a backing array that nothing else uses.
NewArray(h) == Len(h) + 1

\* The heap with array arr at address a.
Put(h, a, arr) == IF a > Len(h) THEN Append(h, arr) ELSE [h EXCEPT ![a] = arr]

\* The tree rollProtoArray returns, as buildTree lays it out: the children
\* of each node in an array of their own, allocated by the appends of the
\* call that builds the node.
RECURSIVE Store(_, _)
Store(tree, h) ==
    LET n == Len(tree.Children)
        RECURSIVE kids(_, _, _)
        kids(k, hh, acc) ==
            IF k > n THEN [heap |-> hh, nodes |-> acc]
            ELSE LET r == Store(tree.Children[k], hh)
                 IN  kids(k + 1, r.heap, Append(acc, r.node))
        ks == kids(1, h, <<>>)
        a  == NewArray(ks.heap)
    IN  IF n = 0
        THEN [node |-> [tree EXCEPT !.Children = 0], heap |-> h]
        ELSE [node |-> [tree EXCEPT !.Children = a],
              heap |-> Put(ks.heap, a, ks.nodes)]

\* The proto-arrays the builds fetch: every shape of up to MaxSnapNodes
\* blocks, the last one the head and the best descendant of the blocks
\* it descends from.
RECURSIVE PathTo(_, _)
PathTo(p, i) == IF i = 0 THEN {} ELSE {i} \cup PathTo(p, p[i])

SnapArrays ==
    UNION {{ProtoArrayOf(n, p, PathTo(p, n), n - 1) : p \in TreeShapes(n)} :
              n \in 1..MaxSnapNodes}

\* The zero ForkChoiceNode with its nil slice.
EmptyStruct == [EmptyNode EXCEPT !.Children = 0]

InitSnap ==
    /\ IdleHelper
    /\ IdleRoll
    /\ IdleCompact
    /\ IdlePrune
    /\ IdleMonitor
    /\ IdleServe
    /\ arrays = <<>>
    /\ published = EmptyStruct
    /\ copied = EmptyStruct
    /\ walk = EmptyStruct
    /\ snapPc = "idle"
    /\ rebuilds = 0
    /\ snapshots = {}

\* buildLatestForkChoiceSummary with a proto-array fetched: the tree is
\* built in new arrays and m.forkChoiceSummary = summary replaces the struct.
SnapRebuild ==
    /\ rebuilds < MaxRebuilds
    /\ \E a \in SnapArrays :
          LET r == Store(computeSummary(a, a[1].BestDescendant).tree, arrays)
          IN  /\ arrays' = r.heap
              /\ published' = r.node
              /\ snapshots' = snapshots \cup {<<r.node, Val(r.node, r.heap)>>}
    /\ rebuilds' = rebuilds + 1
    /\ UNCHANGED <<copied, walk, snapPc>>
    /\ UNCHANGED <<rollVars, compactVars, pruneVars, monitorVars, serveVars,
                   helperVars>>

\* sendForkChoice: the copy of m.forkChoiceSummary, passed by value to
\* pruneForBrowser.
SnapCopy ==
    /\ snapPc = "idle"
    /\ copied' = published
    /\ walk' = published
    /\ snapPc' = "prune"
    /\ UNCHANGED <<arrays, published, rebuilds, snapshots>>
    /\ UNCHANGED <<rollVars, compactVars, pruneVars, monitorVars, serveVars,
                   helperVars>>

\* A pruning that cuts the siblings of the canonical child out of the
\* array it walks through.
SnapPruneStepInPlace ==
    /\ snapPc = "prune"
    /\ FirstCanonical(Kids(walk, arrays)) # 0
    /\ walk' = Kids(walk, arrays)[FirstCanonical(Kids(walk, arrays))]
    /\ arrays' = [arrays EXCEPT ![walk.Children] = <<walk'>>]
    /\ UNCHANGED <<published, copied, snapPc, rebuilds, snapshots>>
    /\ UNCHANGED <<rollVars, compactVars, pruneVars, monitorVars, serveVars,
                   helperVars>>

\* One pass of the loop of pruneForBrowser that moves on: node = child,
\* for the first child marked canonical, child being a copy of the element.
SnapPruneStep ==
    /\ snapPc = "prune"
    /\ FirstCanonical(Kids(walk, arrays)) # 0
    /\ walk' = Kids(walk, arrays)[FirstCanonical(Kids(walk, arrays))]
    /\ UNCHANGED <<arrays, published, copied, snapPc, rebuilds, snapshots>>
    /\ UNCHANGED <<rollVars, compactVars, pruneVars, monitorVars, serveVars,
                   helperVars>>

\* pruneForBrowser returns node, at whatever slot, and the handler encodes
\* it, reading the arrays below it.
SnapEncode ==
    /\ snapPc = "prune"
    /\ snapPc' = "idle"
    /\ copied' = EmptyStruct
    /\ walk' = EmptyStruct
    /\ UNCHANGED <<arrays, published, rebuilds, snapshots>>
    /\ UNCHANGED <<rollVars, compactVars, pruneVars, monitorVars, serveVars,
                   helperVars>>

\* sendForkChoiceAsDOT: buildDOT takes m.forkChoiceSummary by value and
\* visit starts at its root.
SnapDot ==
    /\ snapPc = "idle"
    /\ copied' = published
    /\ walk' = published
    /\ snapPc' = "visit"
    /\ UNCHANGED <<arrays, published, rebuilds, snapshots>>
    /\ UNCHANGED <<rollVars, compactVars, pruneVars, monitorVars, serveVars,
                   helperVars>>

\* visit: child.visit(g, &n) for a child of the receiver, child being a
\* copy of the element; the calls write to the graph only.
SnapVisitChild ==
    /\ snapPc = "visit"
    /\ \E k \in 1..Len(Kids(walk, arrays)) : walk' = Kids(walk, arrays)[k]
    /\ UNCHANGED <<arrays, published, copied, snapPc, rebuilds, snapshots>>
    /\ UNCHANGED <<rollVars, compactVars, pruneVars, monitorVars, serveVars,
                   helperVars>>

\* The end of the visit and g.Write.
SnapDotReturn ==
    /\ snapPc = "visit"
    /\ snapPc' = "idle"
    /\ copied' = EmptyStruct
    /\ walk' = EmptyStruct
    /\ UNCHANGED <<arrays, published, rebuilds, snapshots>>
    /\ UNCHANGED <<rollVars, compactVars, pruneVars, monitorVars, serveVars,
                   helperVars>>

NextSnap ==
    \/ SnapRebuild
    \/ SnapCopy
    \/ SnapPruneStep
    \/ SnapEncode
    \/ SnapDot
    \/ SnapVisitChild
    \/ SnapDotReturn

SpecSnap == InitSnap /\ [][NextSnap]_vars

\* C22: every struct that was published stands for the tree it stood for
\* when it was published, whatever was rebuilt, copied, pruned or visited
\* since; and the copy a handler works on is such a struct, or the zero one.
PublishedTreesNeverChange ==
    /\ \A snap \in snapshots : Val(snap[1], arrays) = snap[2]
    /\ snapPc \in {"prune", "visit"}
          => (copied = EmptyStruct \/ \E snap \in snapshots : snap[1] = copied)

\* A handler copied one published tree and walked into it, and two
\* rebuilds with other trees followed.
PublishedTreesNeverChangeWitness ==
    /\ snapPc = "prune"
    /\ copied # published
    /\ Kids(copied, arrays) # <<>>
    /\ walk = Kids(copied, arrays)[1]
    /\ Cardinality(snapshots) >= 3
    /\ \E snap \in snapshots : snap[1] = copied /\ Val(copied, arrays) = snap[2]

(***************************************************************************)
(* humanizeRoot, on strings as sequences of one-byte characters.           *)
(***************************************************************************)
HexDigits == Digits \o <<"a", "b", "c", "d", "e", "f">>

\* The abbreviation taken from the start of the string.
humanizeRootFromStart(root) ==
    IF Len(root) # HexRootLen THEN root
    ELSE SubSeq(root, 1, 4) \o <<".", ".">> \o SubSeq(root, Len(root) - 3, Len(root))

\* humanizeRoot: root[2:6], "..", root[len(root)-4:] for a root of 66
\* bytes, root itself otherwise.
humanizeRoot(root) ==
    IF Len(root) # HexRootLen THEN root
    ELSE SubSeq(root, 3, 6) \o <<".", ".">> \o SubSeq(root, Len(root) - 3, Len(root))

\* Roots of every length up to MaxRootLen: hex digits running with a
\* stride from an offset, behind "0x" or not.
HumanRoots ==
    {[i \in 1..len |->
        IF prefixed /\ i = 1 THEN "0"
        ELSE IF prefixed /\ i = 2 THEN "x"
        ELSE HexDigits[((i * stride + offset) % Len(HexDigits)) + 1]] :
        len \in 0..MaxRootLen, stride \in 1..MaxStride,
        offset \in 0..(Len(HexDigits) - 1), prefixed \in BOOLEAN}

InitHuman ==
    /\ IdleRoll
    /\ IdleCompact
    /\ IdlePrune
    /\ IdleMonitor
    /\ IdleServe
    /\ IdleSnap
    /\ IdleHeads
    /\ IdleBg
    /\ IdlePart
    /\ hRoot \in HumanRoots
    /\ humanized = <<>>
    /\ humanPc = "call"

\* humanized := humanizeRoot(hRoot)
HumanizeRoot ==
    /\ humanPc = "call"
    /\ humanized' = humanizeRoot(hRoot)
    /\ humanPc' = "done"
    /\ UNCHANGED hRoot
    /\ UNCHANGED <<rollVars, compactVars, pruneVars, monitorVars, serveVars,
                   snapVars, headsVars, bgVars, partVars>>

NextHuman == HumanizeRoot

SpecHuman == InitHuman /\ [][NextHuman]_vars

\* C24: for a root of 66 characters the string returned is ten characters,
\* the third to the sixth of the root, two dots, the last four of the root;
\* for a root of any other length it is the root.
HumanizedRootIsAbbreviation ==
    humanPc = "done"
    => IF Len(hRoot) = HexRootLen
       THEN /\ Len(humanized) = 10
            /\ \A i \in 1..4 : humanized[i] = hRoot[2 + i]
            /\ humanized[5] = "."
            /\ humanized[6] = "."
            /\ \A i \in 1..4 : humanized[6 + i] = hRoot[Len(hRoot) - 4 + i]
       ELSE humanized = hRoot

\* A root of 66 characters behind "0x", whose third to sixth characters are
\* not its first four, was abbreviated.
HumanizedRootIsAbbreviationWitness ==
    /\ humanPc = "done"
    /\ Len(hRoot) = HexRootLen
    /\ hRoot[1] = "0"
    /\ hRoot[2] = "x"
    /\ SubSeq(hRoot, 1, 4) # SubSeq(hRoot, 3, 6)
    /\ Len(humanized) = 10

(***************************************************************************)
(* The head fetches: Node.fetchLatestHead and the three forms of           *)
(* doFetchLatestHead, for the nodes of one monitor over its poll cycles.   *)
(***************************************************************************)
HeadNodes == {"n1", "n2"}

HeadVersions == {"Prysm", "Nimbus", "Lighthouse"}

isPrysm(version) == version = "Prysm"

isNimbus(version) == version = "Nimbus"

HeadRef(slot, root) == [slot |-> slot, root |-> root]

HeadSlots == (MaxHeadSlot - 2)..MaxHeadSlot

HeadRoots == {<<"a">>, <<"b">>}

\* The answers of a node: the request fails, the body is not JSON, the
\* root is not base64 (Prysm), a field is missing or of another type, or
\* a head: its root in hex and its slot.
NoAnswer(fail) == [fail |-> fail, root |-> <<>>, slot |-> 0]

HeadAnswers(version) ==
    {NoAnswer(f) : f \in {"http", "decode", "malformed"}
                         \cup (IF isPrysm(version) THEN {"root"} ELSE {})}
    \cup {[fail |-> "none", root |-> r, slot |-> k] :
             r \in HeadRoots, k \in HeadSlots}

\* Go's < on strings of digits: byte by byte, a prefix first.
RECURSIVE StringLess(_, _)
StringLess(a, b) ==
    IF Len(b) = 0 THEN FALSE
    ELSE IF Len(a) = 0 THEN TRUE
    ELSE IF a[1] = b[1] THEN StringLess(Tail(a), Tail(b))
    ELSE DigitVal(a[1]) < DigitVal(b[1])

\* doFetchLatestHeadPrysm: the error and the latestHead it leaves.
doFetchLatestHeadPrysm(head, answer) ==
    IF answer.fail # "none" THEN [err |-> TRUE, head |-> head]
    ELSE IF <<"0", "x">> \o answer.root = head.root
    THEN [err |-> FALSE, head |-> head]
    ELSE IF StringLess(Itoa(answer.slot), head.slot)
    THEN [err |-> FALSE, head |-> head]
    ELSE [err |-> FALSE,
          head |-> HeadRef(Itoa(answer.slot), <<"0", "x">> \o answer.root)]

\* doFetchLatestHeadNimbus
doFetchLatestHeadNimbus(head, answer) ==
    IF answer.fail # "none" THEN [err |-> TRUE, head |-> head]
    ELSE IF <<"0", "x">> \o answer.root = head.root
    THEN [err |-> FALSE, head |-> head]
    ELSE [err |-> FALSE,
          head |-> HeadRef(Itoa(answer.slot), <<"0", "x">> \o answer.root)]

\* doFetchLatestHead; the roots of the header endpoint come with "0x".
doFetchLatestHead(version, head, answer) ==
    IF isPrysm(version) THEN doFetchLatestHeadPrysm(head, answer)
    ELSE IF isNimbus(version) THEN doFetchLatestHeadNimbus(head, answer)
    ELSE IF answer.fail # "none" THEN [err |-> TRUE, head |-> head]
    ELSE IF <<"0", "x">> \o answer.root = head.root
    THEN [err |-> FALSE, head |-> head]
    ELSE [err |-> FALSE,
          head |-> HeadRef(Itoa(answer.slot), <<"0", "x">> \o answer.root)]

\* isHealthy set whatever the fetch returned.
HealthAfterAlways(err) == TRUE

\* fetchLatestHead: isHealthy after a fetch that returned err.
HealthAfter(err) == ~err

\* FromConfig: every node kept has answered its first doFetchLatestHead,
\* made on the zero HeadRef, without an error.
InitHeads ==
    /\ IdleRoll
    /\ IdleCompact
    /\ IdlePrune
    /\ IdleMonitor
    /\ IdleServe
    /\ IdleSnap
    /\ IdleHuman
    /\ IdleBg
    /\ IdlePart
    /\ nodeVersion \in [HeadNodes -> HeadVersions]
    /\ nodeResp \in [HeadNodes -> {a \in HeadAnswers("Prysm") : a.fail = "none"}]
    /\ nodeHead = [n \in HeadNodes |->
                      doFetchLatestHead(nodeVersion[n], HeadRef(<<>>, <<>>),
                                        nodeResp[n]).head]
    /\ nodeHealthy = [n \in HeadNodes |-> TRUE]
    /\ nodeFetchPc = [n \in HeadNodes |-> "idle"]
    /\ pollPc = "idle"
    /\ nodePanicked = FALSE

\* fetchHeads: the loop of wg.Add(1) and go node.fetchLatestHead(&wg).
PollSpawn ==
    /\ ~nodePanicked
    /\ pollPc = "idle"
    /\ pollPc' = "wait"
    /\ nodeFetchPc' = [n \in HeadNodes |-> "running"]
    /\ UNCHANGED <<nodeVersion, nodeHead, nodeHealthy, nodeResp, nodePanicked>>
    /\ UNCHANGED <<rollVars, compactVars, pruneVars, monitorVars, serveVars,
                   snapVars, humanVars, bgVars, partVars>>

\* The goroutine of node n: doFetchLatestHead, then isHealthy and wg.Done().
\* A failed type assertion panics and nothing is assigned.
HeadFetch(n) ==
    /\ ~nodePanicked
    /\ nodeFetchPc[n] = "running"
    /\ \E answer \in HeadAnswers(nodeVersion[n]) :
          LET r == doFetchLatestHead(nodeVersion[n], nodeHead[n], answer)
          IN  IF answer.fail = "malformed"
              THEN /\ nodePanicked' = TRUE
                   /\ UNCHANGED <<nodeHead, nodeHealthy, nodeFetchPc, nodeResp>>
              ELSE /\ nodeHead' = [nodeHead EXCEPT ![n] = r.head]
                   /\ nodeHealthy' = [nodeHealthy EXCEPT ![n] = HealthAfter(r.err)]
                   /\ nodeResp' = [nodeResp EXCEPT ![n] = answer]
                   /\ nodeFetchPc' = [nodeFetchPc EXCEPT ![n] = "done"]
                   /\ UNCHANGED nodePanicked
    /\ UNCHANGED <<nodeVersion, pollPc>>
    /\ UNCHANGED <<rollVars, compactVars, pruneVars, monitorVars, serveVars,
                   snapVars, humanVars, bgVars, partVars>>

\* wg.Wait() returns when every goroutine of the cycle has called Done.
PollWait ==
    /\ ~nodePanicked
    /\ pollPc = "wait"
    /\ \A n \in HeadNodes : nodeFetchPc[n] = "done"
    /\ pollPc' = "idle"
    /\ nodeFetchPc' = [n \in HeadNodes |-> "idle"]
    /\ UNCHANGED <<nodeVersion, nodeHead, nodeHealthy, nodeResp, nodePanicked>>
    /\ UNCHANGED <<rollVars, compactVars, pruneVars, monitorVars, serveVars,
                   snapVars, humanVars, bgVars, partVars>>

NextHeads ==
    \/ PollSpawn
    \/ \E n \in HeadNodes : HeadFetch(n)
    \/ PollWait

SpecHeads == InitHeads /\ [][NextHeads]_vars

\* The number a slot string stands for.
SlotNumber(slot) == DigitsVal(slot)

\* C26: a Prysm node's fetch that got a head replaces latestHead exactly
\* when the root is another one and the slot is, as a number, not below the
\* slot held; so the slot held never goes down as a number.
PrysmAdoptsByNumber ==
    [][\A n \in HeadNodes :
          (/\ isPrysm(nodeVersion[n])
           /\ nodeFetchPc[n] = "running"
           /\ nodeFetchPc'[n] = "done"
           /\ nodeResp'[n].fail = "none")
          => /\ (nodeHead'[n] # nodeHead[n])
                   <=> (/\ <<"0", "x">> \o nodeResp'[n].root # nodeHead[n].root
                        /\ nodeResp'[n].slot >= SlotNumber(nodeHead[n].slot))
             /\ SlotNumber(nodeHead'[n].slot) >= SlotNumber(nodeHead[n].slot)]_vars

\* C30: the fetch of node n leaves the other nodes as they were; one that
\* returned an error leaves latestHead of n and makes n unhealthy, one that
\* returned none makes it healthy; and between the poll cycles each node's
\* isHealthy tells whether its last fetch returned no error.
FetchSetsOwnHealth ==
    /\ [][\A n \in HeadNodes :
             (nodeFetchPc[n] = "running" /\ nodeFetchPc'[n] = "done")
             => /\ \A m \in HeadNodes \ {n} :
                      /\ nodeHead'[m] = nodeHead[m]
                      /\ nodeHealthy'[m] = nodeHealthy[m]
                /\ nodeResp'[n].fail # "none"
                      => (nodeHead'[n] = nodeHead[n] /\ ~nodeHealthy'[n])
                /\ nodeResp'[n].fail = "none" => nodeHealthy'[n]]_vars
    /\ [](pollPc = "idle"
             => \A n \in HeadNodes :
                   nodeHealthy[n] = (nodeResp[n].fail = "none"))

\* After a poll cycle: one node's fetch failed and it kept the head it had,
\* the other node's fetch brought a new head.
FetchSetsOwnHealthWitness ==
    /\ pollPc = "idle"
    /\ \E n \in HeadNodes : \E m \in HeadNodes \ {n} :
          /\ nodeResp[n].fail = "http"
          /\ ~nodeHealthy[n]
          /\ nodeHead[n].root # <<>>
          /\ nodeResp[m].fail = "none"
          /\ nodeHealthy[m]
          /\ nodeHead[m] = HeadRef(Itoa(nodeResp[m].slot),
                                   <<"0", "x">> \o nodeResp[m].root)
          /\ nodeHead[m] # nodeHead[n]

(***************************************************************************)
(* fetchHeads with the build in a goroutine of its own: each change of the *)
(* provider's head starts one, and fetchHeads goes on without waiting.     *)
(* The provider's heads are numbered 0, 1, 2, ... as they follow each      *)
(* other, and the proto-array of head h rolls into tree h.                 *)
(***************************************************************************)
Triggers == 1..MaxTriggers

NoBuild == [pc |-> "none", tree |-> 0]

InitBg ==
    /\ IdleRoll
    /\ IdleCompact
    /\ IdlePrune
    /\ IdleMonitor
    /\ IdleServe
    /\ IdleSnap
    /\ IdleHuman
    /\ IdleHeads
    /\ IdlePart
    /\ bgHead = 0
    /\ bgLastBlockTreeHead = 0
    /\ bgPollPc = "poll"
    /\ bgSpawned = 0
    /\ bgBuilds = [k \in Triggers |-> NoBuild]
    /\ bgLock = 0
    /\ bgSummary = [trigger |-> 0, tree |-> 0]
    /\ bgPanicked = FALSE

\* fetchHeads: the loop that notes the provider's latestHead and starts the
\* head fetches.
BgSpawnFetches ==
    /\ ~bgPanicked
    /\ bgPollPc = "poll"
    /\ bgLastBlockTreeHead' = bgHead
    /\ bgPollPc' = "wait"
    /\ UNCHANGED <<bgHead, bgSpawned, bgBuilds, bgLock, bgSummary, bgPanicked>>
    /\ UNCHANGED <<rollVars, compactVars, pruneVars, monitorVars, serveVars,
                   snapVars, humanVars, headsVars, partVars>>

\* The provider's fetchLatestHead and wg.Wait(): the head is the one it
\* was, or the next one.
BgHeadFetched ==
    /\ ~bgPanicked
    /\ bgPollPc = "wait"
    /\ \E changed \in BOOLEAN :
          /\ changed => bgSpawned < MaxTriggers
          /\ bgHead' = IF changed THEN bgHead + 1 ELSE bgHead
    /\ bgPollPc' = "joined"
    /\ UNCHANGED <<bgLastBlockTreeHead, bgSpawned, bgBuilds, bgLock,
                   bgSummary, bgPanicked>>
    /\ UNCHANGED <<rollVars, compactVars, pruneVars, monitorVars, serveVars,
                   snapVars, humanVars, headsVars, partVars>>

\* The end of fetchHeads: go func() { m.buildLatestForkChoiceSummary() }()
\* if the head is not the one noted, and the return to the polling loop.
BgSpawnBuild ==
    /\ ~bgPanicked
    /\ bgPollPc = "joined"
    /\ IF bgHead # bgLastBlockTreeHead
       THEN /\ bgSpawned' = bgSpawned + 1
            /\ bgBuilds' = [bgBuilds EXCEPT ![bgSpawned + 1] =
                               [pc |-> "fetch", tree |-> 0]]
       ELSE UNCHANGED <<bgSpawned, bgBuilds>>
    /\ bgPollPc' = "poll"
    /\ UNCHANGED <<bgHead, bgLastBlockTreeHead, bgLock, bgSummary, bgPanicked>>
    /\ UNCHANGED <<rollVars, compactVars, pruneVars, monitorVars, serveVars,
                   snapVars, humanVars, headsVars, partVars>>

\* Goroutine k: the provider is syncing or fetchProtoArray fails, and the
\* error is logged; or the array is empty and protoArray[0] panics; or the
\* array of the head the provider has now is rolled into summary.
BgFetchProtoArray(k) ==
    /\ ~bgPanicked
    /\ bgBuilds[k].pc = "fetch"
    /\ \E outcome \in {"error", "empty", "nodes"} :
          /\ bgBuilds' = [bgBuilds EXCEPT ![k] =
                IF outcome = "error" THEN [pc |-> "done", tree |-> 0]
                ELSE IF outcome = "empty" THEN @
                ELSE [pc |-> "lock", tree |-> bgHead]]
          /\ bgPanicked' = (outcome = "empty")
    /\ UNCHANGED <<bgHead, bgLastBlockTreeHead, bgPollPc, bgSpawned, bgLock,
                   bgSummary>>
    /\ UNCHANGED <<rollVars, compactVars, pruneVars, monitorVars, serveVars,
                   snapVars, humanVars, headsVars, partVars>>

\* Goroutine k: m.forkchoiceLock.Lock()
BgLock(k) ==
    /\ ~bgPanicked
    /\ bgBuilds[k].pc = "lock"
    /\ bgLock = 0
    /\ bgLock' = k
    /\ bgBuilds' = [bgBuilds EXCEPT ![k].pc = "assign"]
    /\ UNCHANGED <<bgHead, bgLastBlockTreeHead, bgPollPc, bgSpawned,
                   bgSummary, bgPanicked>>
    /\ UNCHANGED <<rollVars, compactVars, pruneVars, monitorVars, serveVars,
                   snapVars, humanVars, headsVars, partVars>>

\* Goroutine k: m.forkChoiceSummary = &summary, and the deferred Unlock.
\* What it fetched is not read again.
BgAssign(k) ==
    /\ ~bgPanicked
    /\ bgBuilds[k].pc = "assign"
    /\ bgSummary' = [trigger |-> k, tree |-> bgBuilds[k].tree]
    /\ bgLock' = 0
    /\ bgBuilds' = [bgBuilds EXCEPT ![k] = [pc |-> "done", tree |-> 0]]
    /\ UNCHANGED <<bgHead, bgLastBlockTreeHead, bgPollPc, bgSpawned, bgPanicked>>
    /\ UNCHANGED <<rollVars, compactVars, pruneVars, monitorVars, serveVars,
                   snapVars, humanVars, headsVars, partVars>>

NextBg ==
    \/ BgSpawnFetches
    \/ BgHeadFetched
    \/ BgSpawnBuild
    \/ \E k \in Triggers : BgFetchProtoArray(k)
    \/ \E k \in Triggers : BgLock(k)
    \/ \E k \in Triggers : BgAssign(k)

SpecBg == InitBg /\ [][NextBg]_vars

\* C27: what is published changes only to the tree of a build started by a
\* later change of the head than the build whose tree was there.
PublicationsFollowTriggers ==
    [][bgSummary' # bgSummary => bgSummary'.trigger > bgSummary.trigger]_vars

(***************************************************************************)
(* fetchLatestParticipation.  An entry of the cache is its epoch and       *)
(* whether it came as the previous epoch of an answer, with the head rate. *)
(***************************************************************************)
Participation(epoch, hasHeadRate) == [Epoch |-> epoch, HeadRate |-> hasHeadRate]

\* The list after a call that fetched the target epoch.
fetchLatestParticipation(data, targetEpoch) ==
    LET currentParticipation == Participation(targetEpoch, FALSE)
        previousParticipation == Participation(targetEpoch - 1, TRUE)
        data1 == IF Len(data) # 0
                 THEN IF data[Len(data)].Epoch = previousParticipation.Epoch
                      THEN [data EXCEPT ![Len(data)] = previousParticipation]
                      ELSE Append(data, previousParticipation)
                 ELSE Append(data, previousParticipation)
        data2 == Append(data1, currentParticipation)
    IN  IF Len(data2) > participationEntriesCount THEN Tail(data2) ELSE data2

InitPart ==
    /\ IdleRoll
    /\ IdleCompact
    /\ IdlePrune
    /\ IdleMonitor
    /\ IdleServe
    /\ IdleSnap
    /\ IdleHuman
    /\ IdleHeads
    /\ IdleBg
    /\ participation = <<>>
    /\ partCalls = 0

\* A call of fetchLatestParticipation at a time whose last complete epoch
\* is targetEpoch: doFetchParticipation fails and the cache stays, or the
\* cache is updated.
FetchLatestParticipation ==
    /\ partCalls < MaxPartCalls
    /\ partCalls' = partCalls + 1
    /\ \E targetEpoch \in 1..MaxEpoch : \E err \in BOOLEAN :
          participation' = IF err THEN participation
                           ELSE fetchLatestParticipation(participation, targetEpoch)
    /\ UNCHANGED <<rollVars, compactVars, pruneVars, monitorVars, serveVars,
                   snapVars, humanVars, headsVars, bgVars>>

NextPart == FetchLatestParticipation

SpecPart == InitPart /\ [][NextPart]_vars

\* C29: the cache never holds more than participationEntriesCount entries.
ParticipationCacheBounded == Len(participation) <= participationEntriesCount

=============================================================================
